---- MODULE Spec2Model ----
(***************************************************************************)
(* A model of the SLIK/iDeb extractor: the parser of src/slik_parser.py    *)
(* and the batch loop of src/app.py.  Texts are sequences of one-character *)
(* strings, so that the regular expressions, the splitting and the         *)
(* formatting of the source are computed character by character.           *)
(***************************************************************************)
EXTENDS Integers, Sequences, FiniteSets, TLC

VARIABLES
    pc,          \* position of the script that drives the functions
    value,       \* argument of _parse_currency_to_int
    amount,      \* argument of _format_rupiah
    formatted,   \* result of _format_rupiah
    parsed,      \* result of _parse_currency_to_int
    captured,    \* _parse_currency_to_int of the amount the anchor regex captures
    date_tokens, \* the tokens and the separator date_str is written with
    date_str,    \* argument of _format_date_excel
    date_out,    \* outcome of _format_date_excel: the exception raised, or the value
    text,        \* argument of _strip_rahasia
    cleaned,     \* _strip_rahasia(text)
    recleaned,   \* _strip_rahasia(cleaned)
    chunk_parts, \* the lines the facility chunk is written with
    chunk,       \* argument of _parse_chunk: the text of one facility segment
    nama_debitur,\* argument of _parse_chunk and parse_slik_data: the debtor name
    record,      \* result of _parse_chunk: <<>> for None, <<data>> for a dict
    df,          \* a DataFrame of facility records: the sequence of its rows
    summary,     \* result of build_debtor_summary: the sequence of its rows
    doc_parts,   \* the header and the facility segments the document is written with
    full_text,   \* argument of parse_slik_data: the cleaned text of one document
    facility_chunks, \* the candidate segments parse_slik_data goes through
    uploaded_files,  \* app.py: the uploaded documents, in input order
    idx,         \* app.py: the position of the batch loop, from 1
    all_records, \* app.py: the records gathered so far in the batch
    progress,    \* app.py: the files the progress bar has announced
    alerts,      \* app.py: the st.error and st.warning messages shown
    session_state,   \* app.py: st.session_state, the keys results and processed
    bukti_items, \* argument of _format_agunan_summary: the ownership-proof fragments
    jenis_items, \* argument of _format_agunan_summary: the collateral-type fragments
    agunan,      \* result of _format_agunan_summary
    authenticated,   \* app.py: st.session_state["authenticated"]
    access_code, \* app.py: the content of access_code.txt, None when it cannot be read
    run,         \* app.py: the widget values of the last script run and what it did
    runs         \* app.py: the number of script runs so far

currencyVars == <<value, amount, formatted, parsed, captured>>
dateVars == <<date_tokens, date_str, date_out>>
stripVars == <<text, cleaned, recleaned>>
chunkVars == <<chunk_parts, chunk, nama_debitur, record>>
summaryVars == <<df, summary>>
docVars == <<doc_parts, full_text, facility_chunks>>
batchVars == <<uploaded_files, idx, all_records, progress, alerts, session_state>>
agunanVars == <<bukti_items, jenis_items, agunan>>
authVars == <<authenticated, access_code, run, runs>>
vars == <<pc, currencyVars, dateVars, stripVars, chunkVars, summaryVars, docVars, batchVars,
          agunanVars, authVars>>
notCurrency == <<dateVars, stripVars, chunkVars, summaryVars, docVars, batchVars,
    agunanVars, authVars>>
notDate == <<currencyVars, stripVars, chunkVars, summaryVars, docVars, batchVars,
    agunanVars, authVars>>
notStrip == <<currencyVars, dateVars, chunkVars, summaryVars, docVars, batchVars,
    agunanVars, authVars>>
notChunk == <<currencyVars, dateVars, stripVars, summaryVars, docVars, batchVars,
    agunanVars, authVars>>
notSummary == <<currencyVars, dateVars, stripVars, chunkVars, docVars, batchVars,
    agunanVars, authVars>>
notDoc == <<currencyVars, dateVars, stripVars, batchVars, agunanVars, authVars>>
notBatch == <<currencyVars, dateVars, stripVars, chunkVars, summaryVars, docVars,
    agunanVars, authVars>>
notAgunan == <<currencyVars, dateVars, stripVars, chunkVars, summaryVars, docVars, batchVars,
    authVars>>

----------------------------------------------------------------------------
(* Bounds of the model *)

MaxLen == 3          \* longest enumerated currency string
MaxAmount == 120     \* amounts 0..MaxAmount are enumerated, next to the fixed ones
MaxTokens == 3       \* most tokens of an enumerated date string
MaxPieces == 3       \* most pieces an enumerated raw text is put together from
MaxFiles == 3        \* most documents of an enumerated batch
MaxSegs == 2         \* most facility segments of an enumerated document
MaxRows == 3         \* most rows of an enumerated DataFrame of records
MaxKol == 4          \* quality digits 0..MaxKol are enumerated
MaxBukti == 4        \* most ownership-proof fragments of an enumerated list
MaxJenis == 4        \* most collateral-type fragments of an enumerated list
MaxRuns == 8         \* most script runs of an enumerated session

(* every sequence over S of length at most n *)
SeqsUpTo(S, n) == UNION {[1..k -> S] : k \in 0..n}

----------------------------------------------------------------------------
(* Characters and character classes (Python's re on str) *)

Digit == {"0","1","2","3","4","5","6","7","8","9"}
DigitSeq == <<"0","1","2","3","4","5","6","7","8","9">>
LowerSeq == <<"a","b","c","d","e","f","g","h","i","j","k","l","m","n","o","p","q","r","s","t","u","v","w","x","y","z">>
UpperSeq == <<"A","B","C","D","E","F","G","H","I","J","K","L","M","N","O","P","Q","R","S","T","U","V","W","X","Y","Z">>
Lower == {LowerSeq[i] : i \in 1..26}
Upper == {UpperSeq[i] : i \in 1..26}
Space == {" ", "\n", "\t"}                 \* \s
WordChar == Digit \cup Lower \cup Upper \cup {"_"}   \* \w
None == "None"

IndexIn(c, seq) == CHOOSE i \in 1..Len(seq) : seq[i] = c
DigitVal(c) == IndexIn(c, DigitSeq) - 1
DigitChar(d) == DigitSeq[d + 1]
ToLower(c) == IF c \in Upper THEN LowerSeq[IndexIn(c, UpperSeq)] ELSE c
LowerStr(s) == [i \in 1..Len(s) |-> ToLower(s[i])]

(* s[a..b], empty when a > b *)
Slice(s, a, b) == IF a > b THEN <<>> ELSE SubSeq(s, a, b)

(* str.strip(): drop the whitespace at both ends *)
Strip(s) ==
    LET nonws == {i \in 1..Len(s) : s[i] \notin Space}
    IN  IF nonws = {} THEN <<>>
        ELSE Slice(s, CHOOSE i \in nonws : \A j \in nonws : i <= j,
                      CHOOSE i \in nonws : \A j \in nonws : i >= j)

(* str.replace(c, ''): drop every occurrence of the character c *)
RECURSIVE RemoveChar(_, _)
RemoveChar(s, c) ==
    IF s = <<>> THEN <<>>
    ELSE IF Head(s) = c THEN RemoveChar(Tail(s), c)
    ELSE <<Head(s)>> \o RemoveChar(Tail(s), c)

(* str.replace(c, d) for single characters *)
ReplaceChar(s, c, d) == [i \in 1..Len(s) |-> IF s[i] = c THEN d ELSE s[i]]

(* str.split(c)[0]: the text before the first occurrence of c *)
SplitFirst(s, c) ==
    LET hits == {i \in 1..Len(s) : s[i] = c}
    IN  IF hits = {} THEN s
        ELSE Slice(s, 1, (CHOOSE i \in hits : \A j \in hits : i <= j) - 1)

(* the end of the longest run of characters of class cls that starts at i   *)
(* (i - 1 when s[i] is not in cls): a greedy cls*                           *)
RECURSIVE RunEnd(_, _, _)
RunEnd(s, i, cls) ==
    IF i <= Len(s) /\ s[i] \in cls THEN RunEnd(s, i + 1, cls) ELSE i - 1

(* the same for the characters outside cls *)
RECURSIVE RunEndNot(_, _, _)
RunEndNot(s, i, cls) ==
    IF i <= Len(s) /\ s[i] \notin cls THEN RunEndNot(s, i + 1, cls) ELSE i - 1

(* the literal lit occurs in s at position i *)
LitAt(s, i, lit) ==
    /\ i >= 1
    /\ i + Len(lit) - 1 <= Len(s)
    /\ \A k \in 1..Len(lit) : s[i + k - 1] = lit[k]

Min(S) == CHOOSE x \in S : \A y \in S : x <= y
Max(S) == CHOOSE x \in S : \A y \in S : x >= y

----------------------------------------------------------------------------
(* int(str) of Python: surrounding whitespace, one optional sign, digits    *)
(* with single underscores between them; anything else is a ValueError      *)

RECURSIVE DigitsValue(_)
DigitsValue(s) ==
    IF s = <<>> THEN 0
    ELSE DigitsValue(Slice(s, 1, Len(s) - 1)) * 10 + DigitVal(s[Len(s)])

IsIntBody(b) ==
    /\ b # <<>>
    /\ \A i \in 1..Len(b) : b[i] \in Digit \cup {"_"}
    /\ b[1] \in Digit
    /\ b[Len(b)] \in Digit
    /\ \A i \in 1..(Len(b) - 1) : ~(b[i] = "_" /\ b[i + 1] = "_")

PyInt(s) ==
    LET t == Strip(s)
        signed == t # <<>> /\ t[1] \in {"+", "-"}
        body == IF signed THEN Tail(t) ELSE t
    IN  IF IsIntBody(body)
        THEN [ok |-> TRUE,
              val |-> IF signed /\ t[1] = "-"
                      THEN 0 - DigitsValue(RemoveChar(body, "_"))
                      ELSE DigitsValue(RemoveChar(body, "_"))]
        ELSE [ok |-> FALSE, val |-> 0]

(* a slip: the thousands separators are not removed before int() *)
parse_currency_keep_dots(v) ==
    LET r == PyInt(SplitFirst(v, ","))
    IN  IF r.ok THEN r.val ELSE 0

(* _parse_currency_to_int, src/slik_parser.py:377-390 *)
parse_currency_to_int(v) ==
    LET before_comma == SplitFirst(v, ",")
        no_dots == RemoveChar(before_comma, ".")
        r == PyInt(no_dots)
    IN  IF r.ok THEN r.val ELSE 0       \* except ValueError: return 0

----------------------------------------------------------------------------
(* str(n) for n >= 0 *)
RECURSIVE DecStr(_)
DecStr(n) ==
    IF n < 10 THEN <<DigitChar(n)>>
    ELSE DecStr(n \div 10) \o <<DigitChar(n % 10)>>

(* f"{amount:,}": groups of three digits from the right, separated by ','  *)
RECURSIVE GroupThousands(_)
GroupThousands(d) ==
    IF Len(d) <= 3 THEN d
    ELSE GroupThousands(Slice(d, 1, Len(d) - 3)) \o <<",">> \o Slice(d, Len(d) - 2, Len(d))

CommaFormat(n) ==
    IF n < 0 THEN <<"-">> \o GroupThousands(DecStr(0 - n))
    ELSE GroupThousands(DecStr(n))

(* a slip: the separators of f"{amount:,}" are left as commas *)
format_rupiah_commas(a) ==
    IF a = 0 THEN <<"R","p"," ","0">>
    ELSE <<"R","p"," ">> \o CommaFormat(a)

(* _format_rupiah, src/slik_parser.py:393-402 *)
format_rupiah(a) ==
    IF a = 0 THEN <<"R","p"," ","0">>
    ELSE <<"R","p"," ">> \o ReplaceChar(CommaFormat(a), ",", ".")

(* The group ([\d\.,]+) of  Rp\s*([\d\.,]+)  matched at the "Rp" at i, as  *)
(* the anchor and the limit regexes of _parse_chunk capture the amount;    *)
(* None when the regex does not match there.                               *)
AmountChar == Digit \cup {".", ","}
RpAmountAt(s, i) ==
    IF ~LitAt(s, i, <<"R","p">>) THEN None
    ELSE LET a == RunEnd(s, i + 2, Space) + 1
             b == RunEnd(s, a, AmountChar)
         IN  IF b < a THEN None ELSE Slice(s, a, b)

----------------------------------------------------------------------------
(* The state of the parts of the program a specification does not drive *)

IdleCurrency ==
    /\ value = <<>>
    /\ amount = 0
    /\ formatted = <<>>
    /\ parsed = 0
    /\ captured = 0

IdleDate ==
    /\ date_tokens = [tokens |-> <<>>, sep |-> <<>>, pad |-> <<>>]
    /\ date_str = <<>>
    /\ date_out = [exc |-> None, val |-> <<>>]

IdleStrip ==
    /\ text = <<>>
    /\ cleaned = <<>>
    /\ recleaned = <<>>

IdleChunk ==
    /\ chunk_parts = [anchor |-> "absent", kol |-> "-", kolsep |-> <<>>, cond |-> "absent"]
    /\ chunk = <<>>
    /\ nama_debitur = <<>>
    /\ record = <<>>

IdleSummary ==
    /\ df = <<>>
    /\ summary = <<>>

IdleDoc ==
    /\ doc_parts = [pre |-> "none", segs |-> <<>>]
    /\ full_text = <<>>
    /\ facility_chunks = <<>>

IdleBatch ==
    /\ uploaded_files = <<>>
    /\ idx = 0
    /\ all_records = <<>>
    /\ progress = <<>>
    /\ alerts = <<>>
    /\ session_state = [processed |-> FALSE, results |-> <<>>]

IdleAgunan ==
    /\ bukti_items = <<>>
    /\ jenis_items = <<>>
    /\ agunan = <<>>

IdleAuth ==
    /\ authenticated = FALSE
    /\ access_code = None
    /\ run = [kind |-> "none"]
    /\ runs = 0

----------------------------------------------------------------------------
(* The currency helpers, driven on bounded inputs *)

Example383 == <<"3","8","3",".","5","7","0",".","6","6","9",",","0","0">>
ExampleZero == <<"0",",","0","0">>
ExampleGarbage == <<"g","a","r","b","a","g","e">>
CurrencyAlphabet == {"0", "1", "5", ".", ",", "-", "+", " ", "_", "g"}
CurrencyInputs ==
    SeqsUpTo(CurrencyAlphabet, MaxLen) \cup {Example383, ExampleZero, ExampleGarbage}
Amounts == (0..MaxAmount) \cup {999, 1000, 1001, 12345, 999999, 1000000, 383570669}

InitCurrency ==
    /\ IdleAgunan
    /\ IdleAuth
    /\ IdleBatch
    /\ IdleDoc
    /\ IdleSummary
    /\ IdleChunk
    /\ IdleDate
    /\ IdleStrip
    /\ formatted = <<>>
    /\ parsed = 0
    /\ captured = 0
    /\ \/ pc = "parse_start" /\ value \in CurrencyInputs /\ amount = 0
       \/ pc = "format_start" /\ amount \in Amounts /\ value = <<>>

(* a call of _parse_currency_to_int(value) *)
ParseCurrency ==
    /\ pc = "parse_start"
    /\ parsed' = parse_currency_to_int(value)
    /\ pc' = "parse_done"
    /\ UNCHANGED <<value, amount, formatted, captured>>
    /\ UNCHANGED notCurrency

(* a call of _format_rupiah(amount) *)
FormatRupiah ==
    /\ pc = "format_start"
    /\ formatted' = format_rupiah(amount)
    /\ pc' = "format_done"
    /\ UNCHANGED <<value, amount, parsed, captured>>
    /\ UNCHANGED notCurrency

(* the formatted text is parsed again: whole, and as _parse_chunk reads an *)
(* amount, through the group of Rp\s*([\d\.,]+)                            *)
ParseFormatted ==
    /\ pc = "format_done"
    /\ parsed' = parse_currency_to_int(formatted)
    /\ captured' = LET g == RpAmountAt(formatted, 1)
                   IN  IF g = None THEN 0 ELSE parse_currency_to_int(g)
    /\ pc' = "reparse_done"
    /\ UNCHANGED <<value, amount, formatted>>
    /\ UNCHANGED notCurrency

NextCurrency == ParseCurrency \/ FormatRupiah \/ ParseFormatted
SpecCurrency == InitCurrency /\ [][NextCurrency]_vars

(* C1 as stated: parsing the formatted currency string gives back n,       *)
(* _parse_currency_to_int(_format_rupiah(n)) == n for every n >= 0.        *)
C1_Original == pc = "reparse_done" => parsed = amount

(* C1 amended: for every n >= 0 the formatted string is "Rp " followed by  *)
(* the grouped digits; parsing the amount that follows the "Rp" prefix     *)
(* gives back n, while parsing the whole formatted string gives 0.         *)
C1_RoundTrip ==
    pc = "reparse_done" =>
        /\ LitAt(formatted, 1, <<"R","p"," ">>)
        /\ captured = amount
        /\ parsed = 0

C1_Witness ==
    /\ pc = "reparse_done"
    /\ amount = 383570669
    /\ formatted = <<"R","p"," ","3","8","3",".","5","7","0",".","6","6","9">>
    /\ captured = 383570669

OnlyDigits(s) == SelectSeq(s, LAMBDA c : c \in Digit)

----------------------------------------------------------------------------
(* _format_date_excel, src/slik_parser.py:355-375 *)

BULAN ==
    << <<<<"j","a","n","u","a","r","i">>, <<"0","1">>>>,
       <<<<"f","e","b","r","u","a","r","i">>, <<"0","2">>>>,
       <<<<"m","a","r","e","t">>, <<"0","3">>>>,
       <<<<"a","p","r","i","l">>, <<"0","4">>>>,
       <<<<"m","e","i">>, <<"0","5">>>>,
       <<<<"j","u","n","i">>, <<"0","6">>>>,
       <<<<"j","u","l","i">>, <<"0","7">>>>,
       <<<<"a","g","u","s","t","u","s">>, <<"0","8">>>>,
       <<<<"s","e","p","t","e","m","b","e","r">>, <<"0","9">>>>,
       <<<<"o","k","t","o","b","e","r">>, <<"1","0">>>>,
       <<<<"n","o","v","e","m","b","e","r">>, <<"1","1">>>>,
       <<<<"d","e","s","e","m","b","e","r">>, <<"1","2">>>> >>

(* _BULAN.get(key, default) *)
BulanGet(key, default) ==
    IF \E k \in 1..Len(BULAN) : BULAN[k][1] = key
    THEN BULAN[CHOOSE k \in 1..Len(BULAN) : BULAN[k][1] = key][2]
    ELSE default

(* str.split(): the maximal runs of non-whitespace characters, in order *)
RECURSIVE SplitWs(_)
SplitWs(s) ==
    IF s = <<>> THEN <<>>
    ELSE IF s[1] \in Space THEN SplitWs(Tail(s))
    ELSE LET e == RunEndNot(s, 1, Space)
         IN  <<Slice(s, 1, e)>> \o SplitWs(Slice(s, e + 1, Len(s)))

(* str(n) *)
IntStr(n) == IF n < 0 THEN <<"-">> \o DecStr(0 - n) ELSE DecStr(n)

Returned(v) == [exc |-> None, val |-> v]
Raised(e) == [exc |-> e, val |-> <<>>]

(* a slip: the day is copied as written, int(day) is not applied *)
format_date_day_verbatim(s) ==
    LET parts == SplitWs(Strip(s))
    IN  IF Len(parts) # 3 THEN Returned(s)
        ELSE Returned(parts[1] \o <<"/">>
                      \o BulanGet(LowerStr(parts[2]), <<"0","0">>) \o <<"/">> \o parts[3])

(* the body of the try block, lines 368-373 *)
format_date_try(s) ==
    LET parts == SplitWs(Strip(s))
    IN  IF Len(parts) # 3 THEN Returned(s)
        ELSE LET day == PyInt(parts[1])
                 month_num == BulanGet(LowerStr(parts[2]), <<"0","0">>)
             IN  IF ~day.ok THEN Raised("ValueError")
                 ELSE Returned(IntStr(day.val) \o <<"/">> \o month_num \o <<"/">> \o parts[3])

(* _format_date_excel: the try block and  except (ValueError, AttributeError) *)
format_date_excel(s) ==
    LET r == format_date_try(s)
    IN  IF r.exc \in {"ValueError", "AttributeError"} THEN Returned(s) ELSE r

----------------------------------------------------------------------------
(* _format_date_excel driven on bounded inputs *)

ToUpper(c) == IF c \in Lower THEN UpperSeq[IndexIn(c, LowerSeq)] ELSE c
UpperStr(s) == [i \in 1..Len(s) |-> ToUpper(s[i])]
Capitalized(s) == <<ToUpper(s[1])>> \o Tail(s)

RECURSIVE Join(_, _)
Join(tokens, sep) ==
    IF tokens = <<>> THEN <<>>
    ELSE IF Len(tokens) = 1 THEN tokens[1]
    ELSE tokens[1] \o sep \o Join(Tail(tokens), sep)

DateTokens ==
    { <<"2","7">>, <<"0","7">>, <<"a","b">>, <<"2","0","2","1">>,
      <<"S","e","p","t","e","m","b","e","r">>, <<"m","e","i">>, <<"F","o","o">> }
DateSeps == { <<" ">>, <<" ","\t"," ">>, <<"\n">> }
DatePads == { <<>>, <<" ">> }
MonthSpellings ==
    UNION {{BULAN[k][1], UpperStr(BULAN[k][1]), Capitalized(BULAN[k][1])} : k \in 1..Len(BULAN)}
DateParts ==
    [tokens : SeqsUpTo(DateTokens, MaxTokens), sep : DateSeps, pad : DatePads]
    \cup [tokens : {<<d, m, <<"2","0","2","1">>>> :
                       d \in {<<"2","7">>, <<"0","1">>, <<"0","0">>}, m \in MonthSpellings},
          sep : {<<" ">>}, pad : {<<>>}]

InitDate ==
    /\ IdleAgunan
    /\ IdleAuth
    /\ IdleBatch
    /\ IdleDoc
    /\ IdleSummary
    /\ IdleChunk
    /\ IdleCurrency
    /\ IdleStrip
    /\ pc = "date_start"
    /\ date_tokens \in DateParts
    /\ date_str = date_tokens.pad \o Join(date_tokens.tokens, date_tokens.sep) \o date_tokens.pad
    /\ date_out = Returned(<<>>)

(* a call of _format_date_excel(date_str) *)
FormatDateExcel ==
    /\ pc = "date_start"
    /\ date_out' = format_date_excel(date_str)
    /\ pc' = "date_done"
    /\ UNCHANGED <<date_tokens, date_str>>
    /\ UNCHANGED notDate

NextDate == FormatDateExcel
SpecDate == InitDate /\ [][NextDate]_vars

AllDigits(s, n) == Len(s) = n /\ \A i \in 1..n : s[i] \in Digit

(* the name of month k of the year, and its two-digit number *)
MonthNames ==
    << <<"j","a","n","u","a","r","i">>, <<"f","e","b","r","u","a","r","i">>,
       <<"m","a","r","e","t">>, <<"a","p","r","i","l">>, <<"m","e","i">>,
       <<"j","u","n","i">>, <<"j","u","l","i">>, <<"a","g","u","s","t","u","s">>,
       <<"s","e","p","t","e","m","b","e","r">>, <<"o","k","t","o","b","e","r">>,
       <<"n","o","v","e","m","b","e","r">>, <<"d","e","s","e","m","b","e","r">> >>
TwoDigits(k) == <<DigitChar(k \div 10), DigitChar(k % 10)>>
ExpectedMonth(name) ==
    IF \E k \in 1..12 : MonthNames[k] = LowerStr(name)
    THEN TwoDigits(CHOOSE k \in 1..12 : MonthNames[k] = LowerStr(name))
    ELSE <<"0","0">>
(* a two-digit day without its leading zero *)
ExpectedDay(dd) == IF dd[1] = "0" THEN <<dd[2]>> ELSE dd

(* C10: for an input 'DD MonthName YYYY' _format_date_excel returns        *)
(* 'D/MM/YYYY': the day without leading zero, the month as the two-digit   *)
(* number of the Indonesian month name whatever its case ('00' for an      *)
(* unknown name), the year unchanged; an input that does not have exactly  *)
(* three whitespace-separated tokens is returned unchanged; it never       *)
(* raises.                                                                 *)
C10_FormatDate ==
    pc = "date_done" =>
        LET tk == date_tokens.tokens
        IN  /\ date_out.exc = None
            /\ (Len(tk) = 3 /\ AllDigits(tk[1], 2) /\ AllDigits(tk[3], 4)
                    /\ \A i \in 1..Len(tk[2]) : tk[2][i] \in Lower \cup Upper) =>
                  date_out.val = ExpectedDay(tk[1]) \o <<"/">> \o ExpectedMonth(tk[2])
                                 \o <<"/">> \o tk[3]
            /\ Len(tk) # 3 => date_out.val = date_str

C10_Witness ==
    /\ pc = "date_done"
    /\ date_str = <<"2","7"," ","S","e","p","t","e","m","b","e","r"," ","2","0","2","1">>
    /\ date_out = Returned(<<"2","7","/","0","9","/","2","0","2","1">>)

----------------------------------------------------------------------------
(* _strip_rahasia, src/slik_parser.py:48-60 *)

RAHASIA == <<"R","A","H","A","S","I","A">>
DisclaimerHead ==
    <<"I","n","f","o","r","m","a","s","i"," ","i","n","i"," ","b","e","r","s","i","f","a","t">>
DisclaimerTail ==
    <<"d","a","n"," ","h","a","n","y","a"," ","d","i","g","u","n","a","k","a","n"," ",
      "u","n","t","u","k"," ","k","e","p","e","n","t","i","n","g","a","n"," ",
      "p","e","m","o","h","o","n"," ","i","n","f","o","r","m","a","s","i">>

(* \b between s[i - 1] and s[i] *)
IsWordAt(s, i) == i >= 1 /\ i <= Len(s) /\ s[i] \in WordChar
Boundary(s, i) == IsWordAt(s, i - 1) # IsWordAt(s, i)

(* Each matcher gives the last position of the match that starts at i, or 0 *)

(* \bRAHASIA\b *)
WatermarkWordEnd(s, i) ==
    IF LitAt(s, i, RAHASIA) /\ Boundary(s, i) /\ Boundary(s, i + 7) THEN i + 6 ELSE 0

(* Informasi ini bersifat\s+dan hanya ... pemohon informasi\.? *)
DisclaimerEnd(s, i) ==
    IF ~LitAt(s, i, DisclaimerHead) THEN 0
    ELSE LET a == i + Len(DisclaimerHead)
             b == RunEnd(s, a, Space)
         IN  IF b < a \/ ~LitAt(s, b + 1, DisclaimerTail) THEN 0
             ELSE LET e == b + Len(DisclaimerTail)
                  IN  IF e + 1 <= Len(s) /\ s[e + 1] = "." THEN e + 1 ELSE e

(* RAHASIA at i, in any case (re.IGNORECASE) *)
LitAtNoCase(s, i, lit) ==
    /\ i >= 1
    /\ i + Len(lit) - 1 <= Len(s)
    /\ \A k \in 1..Len(lit) : ToLower(s[i + k - 1]) = ToLower(lit[k])

(* \.?RAHASIA\.? with re.IGNORECASE *)
WatermarkAnyEnd(s, i) ==
    LET start == IF i <= Len(s) /\ s[i] = "." /\ LitAtNoCase(s, i + 1, RAHASIA) THEN i + 1
                 ELSE IF LitAtNoCase(s, i, RAHASIA) THEN i ELSE 0
    IN  IF start = 0 THEN 0
        ELSE IF start + 7 <= Len(s) /\ s[start + 7] = "." THEN start + 7 ELSE start + 6

(* re.sub(pattern, '', s) from position i on: the leftmost match at or    *)
(* after i is dropped, the text before it is kept, and the search goes on  *)
(* where the match ended                                                   *)
RECURSIVE SubWatermarkWord(_, _)
SubWatermarkWord(s, i) ==
    LET hits == {j \in i..Len(s) : WatermarkWordEnd(s, j) > 0}
    IN  IF hits = {} THEN Slice(s, i, Len(s))
        ELSE Slice(s, i, Min(hits) - 1)
             \o SubWatermarkWord(s, WatermarkWordEnd(s, Min(hits)) + 1)

RECURSIVE SubDisclaimer(_, _)
SubDisclaimer(s, i) ==
    LET hits == {j \in i..Len(s) : DisclaimerEnd(s, j) > 0}
    IN  IF hits = {} THEN Slice(s, i, Len(s))
        ELSE Slice(s, i, Min(hits) - 1)
             \o SubDisclaimer(s, DisclaimerEnd(s, Min(hits)) + 1)

RECURSIVE SubWatermarkAny(_, _)
SubWatermarkAny(s, i) ==
    LET hits == {j \in i..Len(s) : WatermarkAnyEnd(s, j) > 0}
    IN  IF hits = {} THEN Slice(s, i, Len(s))
        ELSE Slice(s, i, Min(hits) - 1)
             \o SubWatermarkAny(s, WatermarkAnyEnd(s, Min(hits)) + 1)

strip_rahasia(t) ==
    LET t1 == SubWatermarkWord(t, 1)
        t2 == SubDisclaimer(t1, 1)
    IN  SubWatermarkAny(t2, 1)

----------------------------------------------------------------------------
(* _strip_rahasia driven on raw texts put together from pieces *)

RECURSIVE Concat(_)
Concat(pieces) == IF pieces = <<>> THEN <<>> ELSE Head(pieces) \o Concat(Tail(pieces))

TextPieces ==
    { RAHASIA, <<"r","a","h","a","s","i","a">>, <<"R","A","H","A">>, <<"S","I","A">>,
      <<".">>, <<" ">>, <<"1","5","0","0">>,
      DisclaimerHead \o <<" ">>, <<" ">> \o DisclaimerTail \o <<".">> }
RawTexts == {Concat(ps) : ps \in SeqsUpTo(TextPieces, MaxPieces)}

InitStrip ==
    /\ IdleAgunan
    /\ IdleAuth
    /\ IdleBatch
    /\ IdleDoc
    /\ IdleSummary
    /\ IdleChunk
    /\ IdleCurrency
    /\ IdleDate
    /\ pc = "strip_start"
    /\ text \in RawTexts
    /\ cleaned = <<>>
    /\ recleaned = <<>>

(* _strip_rahasia(text), as extract_text_from_pdf calls it *)
StripRahasia ==
    /\ pc = "strip_start"
    /\ cleaned' = strip_rahasia(text)
    /\ pc' = "strip_once"
    /\ UNCHANGED <<text, recleaned>>
    /\ UNCHANGED notStrip

(* _strip_rahasia run again on the cleaned text *)
StripAgain ==
    /\ pc = "strip_once"
    /\ recleaned' = strip_rahasia(cleaned)
    /\ pc' = "strip_twice"
    /\ UNCHANGED <<text, cleaned>>
    /\ UNCHANGED notStrip

NextStrip == StripRahasia \/ StripAgain
SpecStrip == InitStrip /\ [][NextStrip]_vars

(* C8: the text normalizer is idempotent,                                  *)
(* _strip_rahasia(_strip_rahasia(t)) == _strip_rahasia(t) for every t.     *)
C8_Idempotent == pc = "strip_twice" => recleaned = cleaned

----------------------------------------------------------------------------
(* _format_agunan_summary, src/slik_parser.py:308-347 *)

(* the alternatives of the regex of line 323, in its order *)
type_prefixes ==
    << <<"S","H","M">>, <<"S","H","G","B">>, <<"S","K","H","M","T">>, <<"A","J","B">>,
       <<"B","P","K","B">>, <<"P","P","J","B">>, <<"I","M","B">>, <<"S","I","P","P","T">> >>
Lainnya == <<"L","a","i","n","n","y","a">>

(* re.match(r'(SHM|...|SIPPT)\b', item, re.IGNORECASE): the alternative k  *)
(* matches when the item starts with it, whatever the case, and a word     *)
(* boundary follows, i.e. the item ends there or goes on with a non-word   *)
(* character                                                               *)
TypeMatchAt(item, k) ==
    /\ LitAtNoCase(item, 1, type_prefixes[k])
    /\ Len(item) = Len(type_prefixes[k]) \/ item[Len(type_prefixes[k]) + 1] \notin WordChar

(* line 324: type_match.group(1).upper() if type_match else "Lainnya" *)
type_key(item) ==
    LET ks == {k \in 1..Len(type_prefixes) : TypeMatchAt(item, k)}
    IN  IF ks = {} THEN Lainnya
        ELSE UpperStr(Slice(item, 1, Len(type_prefixes[Min(ks)])))

(* lines 320-325: bukti_groups[type_key].append(item); a dict keeps its    *)
(* keys in the order they were first inserted                              *)
RECURSIVE bukti_groups(_, _)
bukti_groups(items, groups) ==
    IF items = <<>> THEN groups
    ELSE LET key == type_key(Head(items))
             at == {g \in 1..Len(groups) : groups[g].key = key}
         IN  bukti_groups(Tail(items),
                 IF at = {} THEN Append(groups, [key |-> key, items |-> <<Head(items)>>])
                 ELSE [groups EXCEPT ![Min(at)].items = Append(@, Head(items))])

(* line 328: Counter(jenis_items), its keys in first-inserted order *)
RECURSIVE jenis_counts(_, _)
jenis_counts(items, counts) ==
    IF items = <<>> THEN counts
    ELSE LET at == {g \in 1..Len(counts) : counts[g].key = Head(items)}
         IN  jenis_counts(Tail(items),
                 IF at = {} THEN Append(counts, [key |-> Head(items), count |-> 1])
                 ELSE [counts EXCEPT ![Min(at)].count = @ + 1])

(* a slip: a group of three is already shown as a count *)
bukti_part_count_from_3(group) ==
    IF Len(group.items) < 3 THEN Join(group.items, <<",", " ">>)
    ELSE DecStr(Len(group.items)) \o <<" ">> \o group.key

(* lines 335-338 *)
bukti_part(group) ==
    IF Len(group.items) <= 3 THEN Join(group.items, <<",", " ">>)
    ELSE DecStr(Len(group.items)) \o <<" ">> \o group.key

(* lines 342-345 *)
jenis_part(entry) ==
    IF entry.count <= 3
    THEN IF entry.count = 1 THEN entry.key
         ELSE entry.key \o <<" ", "(">> \o DecStr(entry.count) \o <<")">>
    ELSE DecStr(entry.count) \o <<" ">> \o entry.key

(* _format_agunan_summary(bukti_items, jenis_items) *)
format_agunan_summary(bukti, jenis) ==
    LET groups == bukti_groups(bukti, <<>>)
        counts == jenis_counts(jenis, <<>>)
        parts == [g \in 1..Len(groups) |-> bukti_part(groups[g])]
                 \o [g \in 1..Len(counts) |-> jenis_part(counts[g])]
    IN  IF parts # <<>> THEN Join(parts, <<" ", "|", " ">>) ELSE <<"-">>

(* fragments as the report writes them *)
BuktiSHM1 == <<"S","H","M"," ","N","O"," ","1">>
BuktiShm2 == <<"s","h","m",".","2">>
BuktiSHGB == <<"S","H","G","B"," ","3">>
BuktiSHMX == <<"S","H","M","X">>
BuktiFragments == {BuktiSHM1, BuktiShm2, BuktiSHGB, BuktiSHMX}
Tanah == <<"T","a","n","a","h">>
Rumah == <<"R","u","m","a","h">>
JenisFragments == {Tanah, Rumah}

----------------------------------------------------------------------------
(* _parse_chunk, src/slik_parser.py:151-301 *)

(* re.search: the leftmost position where the pattern matches, 0 if none *)
FirstHit(hits) == IF hits = {} THEN 0 ELSE Min(hits)

(* \s+Rp\s*([\d\.,]+) matched at p: the position of its "Rp", or 0.  The   *)
(* greedy \s+ takes the whole run of whitespace: "Rp" cannot start earlier *)
RpTailAt(s, p) ==
    IF p >= 1 /\ p <= Len(s) /\ s[p] \in Space
       /\ RpAmountAt(s, RunEnd(s, p, Space) + 1) # None
    THEN RunEnd(s, p, Space) + 1
    ELSE 0

(* \d{2,6}\s*-  matched at i: the position of the "-", or 0.  The digits   *)
(* taken are followed by whitespace or "-", so they are the whole run of   *)
(* digits from i, which has 2 to 6 of them.                                *)
CodeDashAt(s, i) ==
    LET d == RunEnd(s, i, Digit)
        a == RunEnd(s, d + 1, Space)
    IN  IF d - i + 1 >= 2 /\ d - i + 1 <= 6 /\ a + 1 <= Len(s) /\ s[a + 1] = "-"
        THEN a + 1 ELSE 0

(* (\d{2,6}\s*-\s*.*?)\s+Rp\s*([\d\.,]+)  matched at i.  After the "-" the *)
(* greedy \s* ends at w (tried from the longest down), the lazy .*? ends   *)
(* at e (tried from the shortest up, never over a newline), and the tail   *)
(* must match at e + 1.  Group 1 is s[i..e].                               *)
AnchorEnds(s, w) ==
    {e \in w..(Min({k \in (w + 1)..Len(s) : s[k] = "\n"} \cup {Len(s) + 1}) - 1) :
        RpTailAt(s, e + 1) > 0}
AnchorAt(s, i) ==
    LET dash == CodeDashAt(s, i)
        ws == {w \in dash..RunEnd(s, dash + 1, Space) : AnchorEnds(s, w) # {}}
    IN  IF dash = 0 \/ ws = {} THEN <<>>
        ELSE LET e == Min(AnchorEnds(s, Max(ws)))
             IN  <<[group1 |-> Slice(s, i, e),
                    group2 |-> RpAmountAt(s, RpTailAt(s, e + 1))]>>

pelapor_search(s) ==
    LET i == FirstHit({j \in 1..Len(s) : AnchorAt(s, j) # <<>>})
    IN  IF i = 0 THEN <<>> ELSE AnchorAt(s, i)

(* Kualitas\s+(\d)\s*-  matched at i: the digit, or <<>> *)
Kualitas == <<"K","u","a","l","i","t","a","s">>
KualitasAt(s, i) ==
    IF ~LitAt(s, i, Kualitas) THEN <<>>
    ELSE LET a == i + Len(Kualitas)
             b == RunEnd(s, a, Space)
             c == RunEnd(s, b + 2, Space)
         IN  IF b >= a /\ b + 1 <= Len(s) /\ s[b + 1] \in Digit
                /\ c + 1 <= Len(s) /\ s[c + 1] = "-"
             THEN <<s[b + 1]>> ELSE <<>>

kol_search(s) ==
    LET i == FirstHit({j \in 1..Len(s) : KualitasAt(s, j) # <<>>})
    IN  IF i = 0 THEN <<>> ELSE KualitasAt(s, i)

(* Kondisi\s+Fasilitas Aktif *)
Kondisi == <<"K","o","n","d","i","s","i">>
FasilitasAktif == <<"F","a","s","i","l","i","t","a","s"," ","A","k","t","i","f">>
KondisiAktifAt(s, i) ==
    /\ LitAt(s, i, Kondisi)
    /\ RunEnd(s, i + Len(Kondisi), Space) >= i + Len(Kondisi)
    /\ LitAt(s, RunEnd(s, i + Len(Kondisi), Space) + 1, FasilitasAktif)

aktif_search(s) == \E j \in 1..Len(s) : KondisiAktifAt(s, j)

(* the position of the first newline at or after p, Len(s) + 1 if none *)
LineEnd(s, p) == Min({k \in p..Len(s) : s[k] = "\n"} \cup {Len(s) + 1})

(* re.search(pattern, s): the match at the leftmost position, <<>> if none *)
re_search(s, At(_, _)) ==
    LET i == FirstHit({j \in 1..Len(s) : At(s, j) # <<>>})
    IN  IF i = 0 THEN <<>> ELSE At(s, i)

(* whitespace (\s+ when minws = 1, \s* when 0) from a, a lazy group (.*?)  *)
(* and a tail.  The greedy whitespace ends at w, tried from the longest    *)
(* down; the lazy group ends at e, tried from the shortest up, and stays   *)
(* on its line unless re.DOTALL is given; Follows(e + 1) says whether the  *)
(* tail matches behind the group.  The group is s[from..to].               *)
LazyGroupAt(s, a, minws, dotall, Follows(_)) ==
    LET ends(w) == {e \in w..(IF dotall THEN Len(s) ELSE LineEnd(s, w + 1) - 1) :
                       Follows(e + 1)}
        ws == {w \in (a - 1 + minws)..RunEnd(s, a, Space) : ends(w) # {}}
    IN  IF ws = {} THEN <<>>
        ELSE <<[from |-> Max(ws) + 1, to |-> Min(ends(Max(ws)))]>>

(* \s+ and a literal matched at p: the position behind the literal, or 0 *)
WsLitEnd(s, p, lit) ==
    LET q == RunEnd(s, p, Space) + 1
    IN  IF q > p /\ LitAt(s, q, lit) THEN q + Len(lit) ELSE 0

(* Jumlah Hari Tunggakan\s+(\d+)  matched at i: the digits, or <<>> *)
JumlahHariTunggakan == <<"J","u","m","l","a","h"," ","H","a","r","i"," ","T","u","n","g","g","a","k","a","n">>
TunggakanAt(s, i) ==
    IF ~LitAt(s, i, JumlahHariTunggakan) THEN <<>>
    ELSE LET a == i + Len(JumlahHariTunggakan)
             b == RunEnd(s, a, Space)
             c == RunEnd(s, b + 1, Digit)
         IN  IF b >= a /\ c >= b + 1 THEN <<Slice(s, b + 1, c)>> ELSE <<>>

(* \d{2}\s+\w+\s+\d{4}  matched at b: the position of its last digit, or 0 *)
DateEnd(s, b) ==
    LET w1 == RunEnd(s, b + 2, Space)
        m == RunEnd(s, w1 + 1, WordChar)
        w2 == RunEnd(s, m + 1, Space)
    IN  IF /\ b + 1 <= Len(s) /\ s[b] \in Digit /\ s[b + 1] \in Digit
           /\ w1 >= b + 2 /\ m >= w1 + 1 /\ w2 >= m + 1
           /\ w2 + 4 <= Len(s) /\ \A k \in 1..4 : s[w2 + k] \in Digit
        THEN w2 + 4 ELSE 0

(* <label>\s+(\d{2}\s+\w+\s+\d{4})  matched at i: the date, or <<>> *)
TanggalMulai == <<"T","a","n","g","g","a","l"," ","M","u","l","a","i">>
TanggalJatuhTempo == <<"T","a","n","g","g","a","l"," ","J","a","t","u","h"," ","T","e","m","p","o">>
TanggalAt(s, i, label) ==
    IF ~LitAt(s, i, label) THEN <<>>
    ELSE LET a == i + Len(label)
             b == RunEnd(s, a, Space)
         IN  IF b >= a /\ DateEnd(s, b + 1) > 0
             THEN <<Slice(s, b + 1, DateEnd(s, b + 1))>> ELSE <<>>
TanggalMulaiAt(s, i) == TanggalAt(s, i, TanggalMulai)
TanggalJatuhTempoAt(s, i) == TanggalAt(s, i, TanggalJatuhTempo)

(* Plafon Awal\s+Rp\s*([\d\.,]+)  matched at i: the amount, or <<>> *)
PlafonAwal == <<"P","l","a","f","o","n"," ","A","w","a","l">>
PlafonAt(s, i) ==
    IF ~LitAt(s, i, PlafonAwal) THEN <<>>
    ELSE LET a == i + Len(PlafonAwal)
             b == RunEnd(s, a, Space)
         IN  IF b >= a /\ RpAmountAt(s, b + 1) # None
             THEN <<RpAmountAt(s, b + 1)>> ELSE <<>>

(* Suku Bunga/Imbalan\s+([\d\.,]+)\s*%  matched at i: the rate, or <<>> *)
SukuBungaImbalan == <<"S","u","k","u"," ","B","u","n","g","a","/","I","m","b","a","l","a","n">>
BungaAt(s, i) ==
    IF ~LitAt(s, i, SukuBungaImbalan) THEN <<>>
    ELSE LET a == i + Len(SukuBungaImbalan)
             b == RunEnd(s, a, Space)
             c == RunEnd(s, b + 1, AmountChar)
             d == RunEnd(s, c + 1, Space)
         IN  IF b >= a /\ c >= b + 1 /\ d + 1 <= Len(s) /\ s[d + 1] = "%"
             THEN <<Slice(s, b + 1, c)>> ELSE <<>>

(* Jenis Penggunaan\s+(.*?)\s+Frekuensi\s+Restrukturisasi with re.DOTALL   *)
(* matched at i: the group, or <<>>                                        *)
JenisPenggunaan == <<"J","e","n","i","s"," ","P","e","n","g","g","u","n","a","a","n">>
Frekuensi == <<"F","r","e","k","u","e","n","s","i">>
Restrukturisasi == <<"R","e","s","t","r","u","k","t","u","r","i","s","a","s","i">>
FrekuensiAt(s, p) ==
    /\ WsLitEnd(s, p, Frekuensi) > 0
    /\ WsLitEnd(s, WsLitEnd(s, p, Frekuensi), Restrukturisasi) > 0
FasilitasAt(s, i) ==
    IF ~LitAt(s, i, JenisPenggunaan) THEN <<>>
    ELSE LET g == LazyGroupAt(s, i + Len(JenisPenggunaan), 1, TRUE,
                              LAMBDA p : FrekuensiAt(s, p))
         IN  IF g = <<>> THEN <<>> ELSE <<Slice(s, g[1].from, g[1].to)>>

(* Jenis Kredit/Pembiayaan\s+(.*?)(?:\n|$)  matched at i: the group, or <<>> *)
JenisKreditPembiayaan == <<"J","e","n","i","s"," ","K","r","e","d","i","t","/","P","e","m","b","i","a","y","a","a","n">>
KartuKredit == <<"K","a","r","t","u"," ","K","r","e","d","i","t">>
JenisKreditAt(s, i) ==
    IF ~LitAt(s, i, JenisKreditPembiayaan) THEN <<>>
    ELSE LET g == LazyGroupAt(s, i + Len(JenisKreditPembiayaan), 1, FALSE,
                              LAMBDA p : p = Len(s) + 1 \/ s[p] = "\n")
         IN  IF g = <<>> THEN <<>> ELSE <<Slice(s, g[1].from, g[1].to)>>

(* lit in s *)
Contains(s, lit) == \E k \in 1..Len(s) : LitAt(s, k, lit)

(* Bukti Kepemilikan\s+(.*?)(?:\s+Nilai|\n)  matched at i: the group and   *)
(* the position of the last character matched, or <<>>                     *)
BuktiKepemilikan == <<"B","u","k","t","i"," ","K","e","p","e","m","i","l","i","k","a","n">>
Nilai == <<"N","i","l","a","i">>
BuktiAt(s, i) ==
    IF ~LitAt(s, i, BuktiKepemilikan) THEN <<>>
    ELSE LET g == LazyGroupAt(s, i + Len(BuktiKepemilikan), 1, FALSE,
                              LAMBDA p : WsLitEnd(s, p, Nilai) > 0
                                         \/ (p <= Len(s) /\ s[p] = "\n"))
         IN  IF g = <<>> THEN <<>>
             ELSE <<[group |-> Slice(s, g[1].from, g[1].to),
                     end |-> IF WsLitEnd(s, g[1].to + 1, Nilai) > 0
                             THEN WsLitEnd(s, g[1].to + 1, Nilai) - 1
                             ELSE g[1].to + 1]>>

(* Jenis Agunan\s+Nilai Agunan.*?\n\s*(.*?)\s+Rp  matched at i: .*? runs   *)
(* to the first newline, the group lies behind it                          *)
JenisAgunan == <<"J","e","n","i","s"," ","A","g","u","n","a","n">>
NilaiAgunan == <<"N","i","l","a","i"," ","A","g","u","n","a","n">>
JenisAgunanAt(s, i) ==
    IF ~LitAt(s, i, JenisAgunan) THEN <<>>
    ELSE LET a == WsLitEnd(s, i + Len(JenisAgunan), NilaiAgunan)
             nl == IF a = 0 THEN 0 ELSE LineEnd(s, a)
             g == IF a = 0 \/ nl > Len(s) THEN <<>>
                  ELSE LazyGroupAt(s, nl + 1, 0, FALSE,
                                   LAMBDA p : WsLitEnd(s, p, <<"R", "p">>) > 0)
         IN  IF g = <<>> THEN <<>>
             ELSE <<[group |-> Slice(s, g[1].from, g[1].to),
                     end |-> WsLitEnd(s, g[1].to + 1, <<"R", "p">>) - 1]>>

(* re.findall: the groups of the matches from left to right, each search   *)
(* starting behind the match before                                        *)
RECURSIVE bukti_findall(_, _)
bukti_findall(s, i) ==
    LET hits == {j \in i..Len(s) : BuktiAt(s, j) # <<>>}
        m == BuktiAt(s, Min(hits))[1]
    IN  IF hits = {} THEN <<>> ELSE <<m.group>> \o bukti_findall(s, m.end + 1)

RECURSIVE jenis_findall(_, _)
jenis_findall(s, i) ==
    LET hits == {j \in i..Len(s) : JenisAgunanAt(s, j) # <<>>}
        m == JenisAgunanAt(s, Min(hits))[1]
    IN  IF hits = {} THEN <<>> ELSE <<m.group>> \o jenis_findall(s, m.end + 1)

(* lines 288 and 292: m.strip() for m in matches if m.strip() *)
stripped_items(matches) ==
    SelectSeq([k \in 1..Len(matches) |-> Strip(matches[k])], LAMBDA m : m # <<>>)

(* lines 196-198: code_match is the match of  \d{2,6}\s*-\s*  at the start  *)
(* of raw_pelapor                                                          *)
code_prefix_of(raw_pelapor) ==
    LET dash == CodeDashAt(raw_pelapor, 1)
    IN  IF dash = 0 THEN <<>> ELSE Slice(raw_pelapor, 1, RunEnd(raw_pelapor, dash + 1, Space))

name_and_cabang_of(raw_pelapor) ==
    IF code_prefix_of(raw_pelapor) # <<>>
    THEN Strip(Slice(raw_pelapor, Len(code_prefix_of(raw_pelapor)) + 1, Len(raw_pelapor)))
    ELSE raw_pelapor

(* lines 201-212: the branch patterns in their order.  Every pattern is    *)
(* \s+( tokens joined by \s+ )$ ; AnyWord stands for \w+, and rest says    *)
(* that \s+\S.* follows the last token                                     *)
AnyWord == <<"\\w+">>
cabang_patterns ==
    << [words |-> << <<"B","A","N","K">>, <<"B","U","K","O","P","I","N">> >>, rest |-> TRUE],
       [words |-> << <<"B","A","N","K">>, <<"O","C","B","C">>, <<"N","I","S","P">> >>, rest |-> TRUE],
       [words |-> << <<"B","A","N","K">>, <<"C","I","M","B">>, <<"N","I","A","G","A">> >>, rest |-> TRUE],
       [words |-> << <<"B","P","D">>, AnyWord, <<"K","C">> >>, rest |-> TRUE],
       [words |-> << <<"B","M","I">>, <<"K","C">> >>, rest |-> TRUE],
       [words |-> << <<"B","R","I">>, <<"K","A","S">> >>, rest |-> TRUE],
       [words |-> << <<"B","C","A">>, <<"K","A","N","T","O","R">> >>, rest |-> TRUE],
       [words |-> << <<"K","C">> >>, rest |-> TRUE],
       [words |-> << <<"K","P","O">> >>, rest |-> FALSE],
       [words |-> << <<"P","u","s","a","t">> >>, rest |-> FALSE] >>

(* $ without re.MULTILINE: the end of the text, or just before a newline   *)
(* that ends it                                                            *)
AtEnd(s, p) == p = Len(s) + 1 \/ (p = Len(s) /\ s[p] = "\n")

(* the tokens k.. of the pattern, each behind \s+, and the end of the      *)
(* pattern match at p, with re.IGNORECASE                                  *)
RECURSIVE CabangTailAt(_, _, _, _)
CabangTailAt(s, p, pat, k) ==
    LET q == RunEnd(s, p, Space) + 1
    IN  IF k > Len(pat.words)
        THEN IF pat.rest
             THEN q > p /\ q <= Len(s) /\ AtEnd(s, LineEnd(s, q))
             ELSE AtEnd(s, p)
        ELSE /\ q > p
             /\ IF pat.words[k] = AnyWord
                THEN /\ RunEnd(s, q, WordChar) >= q
                     /\ CabangTailAt(s, RunEnd(s, q, WordChar) + 1, pat, k + 1)
                ELSE /\ LitAtNoCase(s, q, pat.words[k])
                     /\ CabangTailAt(s, q + Len(pat.words[k]), pat, k + 1)

(* re.search(pattern, name_and_cabang, re.IGNORECASE).start(), 0 if none *)
cabang_hit(s, pat) ==
    FirstHit({p \in 1..Len(s) : s[p] \in Space /\ CabangTailAt(s, p, pat, 1)})

(* a slip: the branch phrase is cut off however little of the name is left *)
bank_name_always_cut(name_and_cabang) ==
    LET ks == {k \in 1..Len(cabang_patterns) : cabang_hit(name_and_cabang, cabang_patterns[k]) > 0}
    IN  IF ks = {} THEN name_and_cabang
        ELSE Strip(Slice(name_and_cabang, 1,
                         cabang_hit(name_and_cabang, cabang_patterns[Min(ks)]) - 1))

(* lines 214-222: the loop stops at the first pattern that hits; its       *)
(* candidate replaces the name only when it has at least 10 characters     *)
bank_name_of(name_and_cabang) ==
    LET ks == {k \in 1..Len(cabang_patterns) : cabang_hit(name_and_cabang, cabang_patterns[k]) > 0}
    IN  IF ks = {} THEN name_and_cabang
        ELSE LET candidate ==
                     Strip(Slice(name_and_cabang, 1,
                                 cabang_hit(name_and_cabang, cabang_patterns[Min(ks)]) - 1))
             IN  IF Len(candidate) >= 10 THEN candidate ELSE name_and_cabang

(* Rp\s*[\d\.,]+\s+\d{2}\s+\w+\s+\d{4}\s*\n\s*([A-Z][A-Za-z\s\.\(\)]+?)\s*\n *)
(* matched at i.  The whitespace behind the year must hold a newline, the  *)
(* group starts at the first character behind that whitespace, and the     *)
(* lazy group ends at the first e from which whitespace leads to a newline *)
ContinuationClass == Upper \cup Lower \cup Space \cup {".", "(", ")"}
HasNewline(s, a, b) == \E k \in a..b : s[k] = "\n"
ContinuationAt(s, i) ==
    IF ~LitAt(s, i, <<"R", "p">>) THEN <<>>
    ELSE LET a == RunEnd(s, i + 2, Space) + 1
             b == RunEnd(s, a, AmountChar)
             c == RunEnd(s, b + 1, Space)
             y == IF b >= a /\ c >= b + 1 THEN DateEnd(s, c + 1) ELSE 0
             g == RunEnd(s, y + 1, Space) + 1
             ends == IF y > 0 /\ HasNewline(s, y + 1, g - 1) /\ g <= Len(s) /\ s[g] \in Upper
                     THEN {e \in (g + 1)..RunEnd(s, g + 1, ContinuationClass) :
                              HasNewline(s, e + 1, RunEnd(s, e + 1, Space))}
                     ELSE {}
         IN  IF ends = {} THEN <<>> ELSE <<Slice(s, g, Min(ends))>>

(* line 233-236: the prefixes that keep a continuation from being appended *)
continuation_excluded ==
    << <<"F","e","b">>, <<"M","a","r">>, <<"A","p","r">>, <<"M","e","i">>, <<"J","u","n">>, <<"J","u","l">>, <<"A","g","t">>, <<"S","e","p">>, <<"O","k","t">>,
       <<"N","o","v">>, <<"D","e","s">>, <<"K","u","a","l","i","t","a","s">>, <<"N","o"," ","R","e","k","e","n","i","n","g">>, <<"S","i","f","a","t">> >>
is_excluded_continuation(cont_text) ==
    \E k \in 1..Len(continuation_excluded) : LitAt(cont_text, 1, continuation_excluded[k])

(* lines 224-237 *)
with_continuation(bank_name, c) ==
    LET continuation_match == re_search(c, ContinuationAt)
    IN  IF continuation_match # <<>> /\ ~is_excluded_continuation(Strip(continuation_match[1]))
        THEN bank_name \o <<" ">> \o Strip(continuation_match[1])
        ELSE bank_name

(* lines 195-239: data["Pelapor"] *)
pelapor_of(raw_pelapor, c) ==
    Strip(code_prefix_of(raw_pelapor)
          \o with_continuation(bank_name_of(name_and_cabang_of(raw_pelapor)), c))

(* a slip: the fragments are looked at before the credit-card mark *)
agunan_fragments_first(c) ==
    LET jenis_kredit_match == re_search(c, JenisKreditAt)
        is_kartu_kredit == jenis_kredit_match # <<>> /\ Contains(jenis_kredit_match[1], KartuKredit)
        bukti == stripped_items(bukti_findall(c, 1))
        jenis == stripped_items(jenis_findall(c, 1))
    IN  IF bukti # <<>> \/ jenis # <<>> THEN format_agunan_summary(bukti, jenis)
        ELSE IF is_kartu_kredit THEN KartuKredit
        ELSE <<"-">>

(* lines 281-299: data["Agunan"] *)
agunan_of(c) ==
    LET jenis_kredit_match == re_search(c, JenisKreditAt)
        is_kartu_kredit == jenis_kredit_match # <<>> /\ Contains(jenis_kredit_match[1], KartuKredit)
        bukti == stripped_items(bukti_findall(c, 1))
        jenis == stripped_items(jenis_findall(c, 1))
    IN  IF is_kartu_kredit THEN KartuKredit
        ELSE IF bukti # <<>> \/ jenis # <<>> THEN format_agunan_summary(bukti, jenis)
        ELSE <<"-">>

(* lines 248-279: the optional fields, each with its default *)

(* a slip: absent overdue days are stored as the sentinel of the other     *)
(* fields                                                                  *)
hari_tunggakan_default_dash(c) ==
    LET tunggakan_match == re_search(c, TunggakanAt)
    IN  IF tunggakan_match # <<>> THEN tunggakan_match[1] ELSE <<"-">>

hari_tunggakan_of(c) ==
    LET tunggakan_match == re_search(c, TunggakanAt)
    IN  IF tunggakan_match # <<>> THEN tunggakan_match[1] ELSE <<"0">>
tanggal_of(tgl_match) ==
    IF tgl_match # <<>> THEN format_date_excel(tgl_match[1]) ELSE Returned(<<"-">>)
plafon_of(c) ==
    LET plafon_match == re_search(c, PlafonAt)
    IN  IF plafon_match # <<>> THEN format_rupiah(parse_currency_to_int(plafon_match[1]))
        ELSE <<"-">>
suku_bunga_of(c) ==
    LET bunga_match == re_search(c, BungaAt)
    IN  IF bunga_match # <<>> THEN bunga_match[1] \o <<"%">> ELSE <<"-">>
fasilitas_of(c) ==
    LET fasilitas_match == re_search(c, FasilitasAt)
    IN  IF fasilitas_match # <<>> THEN Join(SplitWs(Strip(fasilitas_match[1])), <<" ">>)
        ELSE <<"-">>

(* the inclusion filter of line 186 gone wrong: quality 2 is dropped too *)
excluded_kol_le_2(is_fasilitas_aktif, kol_int) == ~is_fasilitas_aktif /\ kol_int <= 2

(* line 186: if not is_fasilitas_aktif and kol_int < 2: return None *)
excluded(is_fasilitas_aktif, kol_int) == ~is_fasilitas_aktif /\ kol_int < 2

(* _parse_chunk: <<>> for None, else <<data>> with the dict.  Lines        *)
(* 151-187 decide whether a dict is returned.  An exception that left      *)
(* _format_date_excel would leave _parse_chunk too: <<[exc |-> e]>>.       *)
parse_chunk(c, nama) ==
    LET pelapor_match == pelapor_search(c)
    IN  IF pelapor_match = <<>> THEN <<>>
        ELSE LET raw_pelapor == Strip(pelapor_match[1].group1)
                 baki_debet_int == parse_currency_to_int(Strip(pelapor_match[1].group2))
                 kol_match == kol_search(c)
                 kol_str == IF kol_match # <<>> THEN kol_match ELSE <<"-">>
                 kol_int == IF kol_match # <<>> THEN DigitVal(kol_match[1]) ELSE 0
                 is_fasilitas_aktif == aktif_search(c)
                 tgl_mulai == tanggal_of(re_search(c, TanggalMulaiAt))
                 tgl_jto == tanggal_of(re_search(c, TanggalJatuhTempoAt))
             IN  IF excluded(is_fasilitas_aktif, kol_int) THEN <<>>
                 ELSE IF tgl_mulai.exc # None THEN <<[exc |-> tgl_mulai.exc]>>
                 ELSE IF tgl_jto.exc # None THEN <<[exc |-> tgl_jto.exc]>>
                 ELSE <<[Nama_Debitur |-> nama,
                         Pelapor |-> pelapor_of(raw_pelapor, c),
                         Baki_Debet |-> format_rupiah(baki_debet_int),
                         Baki_Debet_Raw |-> baki_debet_int,
                         Kol |-> kol_str,
                         Hari_Tunggakan |-> hari_tunggakan_of(c),
                         Tanggal_Mulai |-> tgl_mulai.val,
                         Tanggal_JTO |-> tgl_jto.val,
                         Plafon |-> plafon_of(c),
                         Suku_Bunga |-> suku_bunga_of(c),
                         Fasilitas |-> fasilitas_of(c),
                         Agunan |-> agunan_of(c)]>>

----------------------------------------------------------------------------
(* _parse_chunk driven on facility chunks written line by line *)

AnchorLine(id) ==
    CASE id = "code6" ->
           <<"6","0","2","6","0","7"," ","-"," ","P","T"," ","B","a","n","k"," ","A","B","C"," ",
             "P","u","s","a","t"," ","R","p"," ","3","8","3",".","5","7","0",".","6","6","9",",",
             "0","0"," ","2","7"," ","F","e","b","r","u","a","r","i"," ","2","0","2","4","\n">>
      [] id = "wrapped" ->
           <<"0","1","4","1"," ","-"," ","B","P","R"," ","D","a","n","a"," ","K","C"," ",
             "B","a","t","a","m","\n","R","p"," ","1",".","5","0","0",",","0","0","\n">>
      [] id = "tight" ->
           <<"0","1","4","1","-","B","P","R"," ","D","a","n","a","\t","R","p","0",",","0","0","\n">>
      [] id = "code7" ->
           <<"1","2","3","4","5","6","7"," ","-"," ","B","a","n","k"," ","R","p"," ","5","\n">>
      [] id = "code1" ->
           <<"7"," ","-"," ","K","o","p","e","r","a","s","i"," ","R","p"," ","5","0","0",",","0","0","\n">>
      [] id = "norp" ->
           <<"6","0","2","6","0","7"," ","-"," ","P","T"," ","B","a","n","k"," ","A","B","C"," ",
             "P","u","s","a","t"," ","3","8","3",".","5","7","0",".","6","6","9",",","0","0","\n">>
      [] OTHER -> <<>>
AnchorIds == {"code6", "wrapped", "tight", "code7", "code1", "norp", "absent"}
(* the lines that hold a reporter code of 2 to 6 digits, a dash and, on    *)
(* the same logical line, an amount marked Rp                              *)
Anchored == {"code6", "wrapped", "tight", "code7"}

KolLine(kol, sep) ==
    IF kol = "-" THEN <<>>
    ELSE Kualitas \o sep \o <<kol>> \o <<" ","-"," ","L","a","n","c","a","r","\n">>

CondText(id) ==
    CASE id = "aktif" -> FasilitasAktif
      [] id = "lunas" -> <<"L","u","n","a","s">>
      [] id = "hapus" -> <<"D","i","h","a","p","u","s","b","u","k","u","k","a","n">>
      [] OTHER -> <<>>
CondLine(id) == IF id = "absent" THEN <<>> ELSE Kondisi \o <<" "," ">> \o CondText(id) \o <<"\n">>
CondIds == {"aktif", "lunas", "hapus", "absent"}

PlafonLine ==
    <<"P","l","a","f","o","n"," ","A","w","a","l"," ","R","p"," ","5",".","0","0","0",",","0","0","\n">>

ChunkText(p) ==
    <<"\n">> \o AnchorLine(p.anchor) \o KolLine(p.kol, p.kolsep) \o PlafonLine \o CondLine(p.cond)

KolDigits == {DigitChar(k) : k \in 0..MaxKol}
ChunkParts ==
    [anchor : AnchorIds, kol : KolDigits \cup {"-"}, kolsep : {<<" ">>, <<" ","\n">>},
     cond : CondIds]
DebtorNames == { <<"S","A","K","U","A","N">>, <<"P","T"," ","I","N","D","O">> }

InitChunk ==
    /\ IdleAgunan
    /\ IdleAuth
    /\ IdleBatch
    /\ IdleDoc
    /\ IdleSummary
    /\ IdleCurrency
    /\ IdleDate
    /\ IdleStrip
    /\ pc = "chunk_start"
    /\ chunk_parts \in ChunkParts
    /\ chunk = ChunkText(chunk_parts)
    /\ nama_debitur \in DebtorNames
    /\ record = <<>>

(* a call of _parse_chunk(chunk, nama_debitur) *)
ParseChunk ==
    /\ pc = "chunk_start"
    /\ record' = parse_chunk(chunk, nama_debitur)
    /\ pc' = "chunk_done"
    /\ UNCHANGED <<chunk_parts, chunk, nama_debitur>>
    /\ UNCHANGED notChunk

NextChunk == ParseChunk
SpecChunk == InitChunk /\ [][NextChunk]_vars

PartsActive(p) == p.cond = "aktif"
PartsQuality(p) == IF p.kol = "-" THEN 0 ELSE DigitVal(p.kol)

(* C2: _parse_chunk returns a record if and only if the segment holds the  *)
(* reporter-code/balance anchor and (it holds the 'Kondisi Fasilitas       *)
(* Aktif' label or its quality digit is at least 2, an absent quality code *)
(* counting as 0); otherwise it returns None.  Inactive with quality 1 is  *)
(* rejected, inactive with quality 2 is accepted, active without quality   *)
(* code is accepted, no anchor is rejected whatever the rest.              *)
C2_InclusionFilter ==
    pc = "chunk_done" =>
        /\ record # <<>> <=>
              /\ chunk_parts.anchor \in Anchored
              /\ PartsActive(chunk_parts) \/ PartsQuality(chunk_parts) >= 2
        /\ (chunk_parts.anchor \in Anchored /\ ~PartsActive(chunk_parts)
               /\ chunk_parts.kol = "1") => record = <<>>
        /\ (chunk_parts.anchor \in Anchored /\ ~PartsActive(chunk_parts)
               /\ chunk_parts.kol = "2") => record # <<>>
        /\ (chunk_parts.anchor \in Anchored /\ PartsActive(chunk_parts)
               /\ chunk_parts.kol = "-") => record # <<>>
        /\ chunk_parts.anchor \notin Anchored => record = <<>>

C2_Witness ==
    /\ pc = "chunk_done"
    /\ chunk_parts.anchor = "code6"
    /\ chunk_parts.cond = "lunas"
    /\ chunk_parts.kol = "2"
    /\ record # <<>>
    /\ record[1].Baki_Debet_Raw = 383570669

----------------------------------------------------------------------------
(* _parse_chunk driven on chunks whose optional fields are present, absent *)
(* or malformed                                                            *)

OptionalFields == {"tunggakan", "mulai", "jto", "plafon", "bunga", "fasilitas"}

BalanceText(id) ==
    CASE id = "amount" -> <<"3","8","3",".","5","7","0",".","6","6","9",",","0","0">>
      [] id = "zero" -> <<"0",",","0","0">>
      [] OTHER -> <<".",".",",">>
BalanceIds == {"amount", "zero", "dots"}

FieldsAnchorLine(balance) ==
    <<"6","0","2","6","0","7"," ","-"," ","P","T"," ","B","a","n","k"," ","A","B","C"," ","R","p"," ">> \o BalanceText(balance) \o <<" ","2","7"," ","F","e","b","r","u","a","r","i"," ","2","0","2","4","\n">>

FieldLine(f, malformed) ==
    CASE f = "tunggakan" ->
           IF malformed THEN <<"J","u","m","l","a","h"," ","H","a","r","i"," ","T","u","n","g","g","a","k","a","n"," ","-","\n">> ELSE <<"J","u","m","l","a","h"," ","H","a","r","i"," ","T","u","n","g","g","a","k","a","n"," ","4","5","\n">>
      [] f = "mulai" ->
           IF malformed THEN <<"T","a","n","g","g","a","l"," ","M","u","l","a","i"," ","0","7"," ","S","e","p","t"," ","2","0","2","1","\n">>
           ELSE <<"T","a","n","g","g","a","l"," ","M","u","l","a","i"," ","2","7"," ","S","e","p","t","e","m","b","e","r"," ","2","0","2","1","\n">>
      [] f = "jto" ->
           IF malformed THEN <<"T","a","n","g","g","a","l"," ","J","a","t","u","h"," ","T","e","m","p","o"," ","5"," ","M","e","i"," ","2","0","3","0","\n">>
           ELSE <<"T","a","n","g","g","a","l"," ","J","a","t","u","h"," ","T","e","m","p","o"," ","0","5"," ","M","e","i"," ","2","0","3","0","\n">>
      [] f = "plafon" ->
           IF malformed THEN <<"P","l","a","f","o","n"," ","A","w","a","l"," ","R","p"," ",".","\n">> ELSE <<"P","l","a","f","o","n"," ","A","w","a","l"," ","R","p"," ","5",".","0","0","0",",","0","0","\n">>
      [] f = "bunga" ->
           IF malformed THEN <<"S","u","k","u"," ","B","u","n","g","a","/","I","m","b","a","l","a","n"," ","1","2",",","5","\n">> ELSE <<"S","u","k","u"," ","B","u","n","g","a","/","I","m","b","a","l","a","n"," ","1","2",",","5"," ","%","\n">>
      [] OTHER ->
           IF malformed THEN <<"J","e","n","i","s"," ","P","e","n","g","g","u","n","a","a","n"," ","M","o","d","a","l"," ","K","e","r","j","a","\n">>
           ELSE <<"J","e","n","i","s"," ","P","e","n","g","g","u","n","a","a","n"," ","M","o","d","a","l"," "," ","K","e","r","j","a","\n","F","r","e","k","u","e","n","s","i"," ","R","e","s","t","r","u","k","t","u","r","i","s","a","s","i"," ","0","\n">>

FieldLines(p) ==
    LET line(f) == IF f \in p.present THEN FieldLine(f, p.malformed) ELSE <<>>
    IN  line("tunggakan") \o line("mulai") \o line("jto") \o line("plafon") \o line("bunga")
        \o line("fasilitas")

FieldsText(p) ==
    <<"\n">> \o FieldsAnchorLine(p.balance) \o KolLine(p.kol, <<" ">>) \o FieldLines(p)
    \o CondLine(p.cond)

FieldsParts ==
    [balance : BalanceIds, kol : {"-", "3"}, cond : {"aktif", "lunas"},
     present : SUBSET OptionalFields, malformed : BOOLEAN]

InitFields ==
    /\ IdleAgunan
    /\ IdleAuth
    /\ IdleBatch
    /\ IdleDoc
    /\ IdleSummary
    /\ IdleCurrency
    /\ IdleDate
    /\ IdleStrip
    /\ pc = "chunk_start"
    /\ chunk_parts \in FieldsParts
    /\ chunk = FieldsText(chunk_parts)
    /\ nama_debitur = <<"S","A","K","U","A","N">>
    /\ record = <<>>

SpecFields == InitFields /\ [][NextChunk]_vars

TwelveFields ==
    {"Nama_Debitur", "Pelapor", "Fasilitas", "Kol", "Hari_Tunggakan", "Tanggal_Mulai",
     "Tanggal_JTO", "Plafon", "Suku_Bunga", "Baki_Debet", "Baki_Debet_Raw", "Agunan"}

FieldsAccepted(p) == p.cond = "aktif" \/ p.kol = "3"
Absent(p, f) == f \notin p.present
WellFormed(p, f) == f \in p.present /\ ~p.malformed

(* C13: for every segment that holds the anchor and passes the inclusion   *)
(* filter, _parse_chunk returns a record with all twelve fields and never  *)
(* raises, whatever optional fields are missing or malformed: an absent    *)
(* quality code is stored as '-' (and counts as 0 in the filter), absent   *)
(* overdue days as '0', an absent start date, due date, approved limit,    *)
(* interest rate or facility type as '-', and an unparsable balance        *)
(* amount as raw 0.  A field that is present and well formed is stored     *)
(* with its own value.                                                     *)
C13_Defaults ==
    pc = "chunk_done" =>
        /\ record # <<>> <=> FieldsAccepted(chunk_parts)
        /\ (chunk_parts.kol = "-" /\ chunk_parts.cond = "lunas") => record = <<>>
        /\ record # <<>> =>
              /\ DOMAIN record[1] = TwelveFields
              /\ chunk_parts.kol = "-" => record[1].Kol = <<"-">>
              /\ chunk_parts.kol # "-" => record[1].Kol = <<chunk_parts.kol>>
              /\ Absent(chunk_parts, "tunggakan") => record[1].Hari_Tunggakan = <<"0">>
              /\ Absent(chunk_parts, "mulai") => record[1].Tanggal_Mulai = <<"-">>
              /\ Absent(chunk_parts, "jto") => record[1].Tanggal_JTO = <<"-">>
              /\ Absent(chunk_parts, "plafon") => record[1].Plafon = <<"-">>
              /\ Absent(chunk_parts, "bunga") => record[1].Suku_Bunga = <<"-">>
              /\ Absent(chunk_parts, "fasilitas") => record[1].Fasilitas = <<"-">>
              /\ chunk_parts.balance = "dots" =>
                    (record[1].Baki_Debet_Raw = 0 /\ record[1].Baki_Debet = <<"R","p"," ","0">>)
              /\ chunk_parts.balance = "amount" => record[1].Baki_Debet_Raw = 383570669
              /\ WellFormed(chunk_parts, "tunggakan") => record[1].Hari_Tunggakan = <<"4","5">>
              /\ WellFormed(chunk_parts, "mulai") => record[1].Tanggal_Mulai = <<"2","7","/","0","9","/","2","0","2","1">>
              /\ WellFormed(chunk_parts, "jto") => record[1].Tanggal_JTO = <<"5","/","0","5","/","2","0","3","0">>
              /\ WellFormed(chunk_parts, "plafon") => record[1].Plafon = <<"R","p"," ","5",".","0","0","0">>
              /\ WellFormed(chunk_parts, "bunga") => record[1].Suku_Bunga = <<"1","2",",","5","%">>
              /\ WellFormed(chunk_parts, "fasilitas") => record[1].Fasilitas = <<"M","o","d","a","l"," ","K","e","r","j","a">>
              /\ record[1].Agunan = <<"-">>

C13_Witness ==
    /\ pc = "chunk_done"
    /\ chunk_parts.kol = "-"
    /\ chunk_parts.cond = "aktif"
    /\ chunk_parts.balance = "dots"
    /\ chunk_parts.present = {"jto", "bunga"}
    /\ chunk_parts.malformed
    /\ record # <<>>
    /\ DOMAIN record[1] = TwelveFields
    /\ record[1].Kol = <<"-">>
    /\ record[1].Hari_Tunggakan = <<"0">>
    /\ record[1].Tanggal_JTO = <<"-">>
    /\ record[1].Baki_Debet_Raw = 0

----------------------------------------------------------------------------
(* _parse_chunk driven on anchor lines with reporter names and on the line *)
(* that follows the anchor line                                            *)

ReporterCode == <<"6","0","2","6","0","7"," ","-"," ">>

ReporterName(id) ==
    CASE id = "pusat" -> <<"P","T"," ","B","a","n","k"," ","P","e","r","e","k","o","n","o","m","i","a","n"," ","R","a","k","y","a","t"," ","P","u","s","a","t">>
      [] id = "pusat10" -> <<"P","T"," ","B","a","n","k"," ","A","B"," ","P","u","s","a","t">>
      [] id = "pusat9" -> <<"P","T"," ","B","a","n","k"," ","A"," ","P","u","s","a","t">>
      [] id = "kc_short" -> <<"B","P","R"," ","D","a","n","a"," ","K","C"," ","B","a","t","a","m">>
      [] id = "kc_lower" -> <<"P","T"," ","B","a","n","k"," ","M","a","n","d","i","r","i"," ","k","c"," ","S","u","t","a","m","i">>
      [] id = "bukopin" -> <<"P","T"," ","B","a","n","k"," ","K","B"," ","B","u","k","o","p","i","n"," ","T","b","k"," ","B","A","N","K"," ","B","U","K","O","P","I","N"," ","K","C"," ","T","J",".","P","I","N","A","N","G">>
      [] id = "bukopin_first" -> <<"P","T"," ","B","a","n","k"," ","B","u","k","o","p","i","n"," ","T","b","k"," ","K","C"," ","B","a","t","a","m">>
      [] id = "cimb_first" -> <<"P","T"," ","B","a","n","k"," ","C","I","M","B"," ","N","i","a","g","a"," ","T","b","k"," ","B","A","N","K"," ","C","I","M","B"," ","N","I","A","G","A"," ","K","P","O">>
      [] id = "bpd" -> <<"P","T"," ","B","P","D"," ","J","a","w","a"," ","T","i","m","u","r"," ","B","P","D"," ","J","A","T","I","M"," ","K","C"," ","B","A","T","A","M">>
      [] id = "kpo" -> <<"P","T"," ","B","a","n","k"," ","M","a","n","d","i","r","i"," ","P","e","r","s","e","r","o"," ","K","P","O">>
      [] id = "kpo_mid" -> <<"P","T"," ","B","a","n","k"," ","K","P","O"," ","M","a","n","d","i","r","i">>
      [] id = "kc_pusat" -> <<"P","T"," ","B","a","n","k"," ","X"," ","K","C"," ","B","a","t","a","m"," ","P","u","s","a","t">>
      [] OTHER -> <<"K","o","p","e","r","a","s","i"," ","S","i","m","p","a","n"," ","P","i","n","j","a","m">>
ReporterIds ==
    {"pusat", "pusat10", "pusat9", "kc_short", "kc_lower", "bukopin", "bukopin_first",
     "cimb_first", "bpd", "kpo", "kpo_mid", "kc_pusat", "plain"}

(* the twelve month abbreviations of the report and the section labels *)
MonthAbbreviations ==
    { <<"J","a","n">>, <<"F","e","b">>, <<"M","a","r">>, <<"A","p","r">>, <<"M","e","i">>, <<"J","u","n">>, <<"J","u","l">>, <<"A","g","t">>, <<"S","e","p">>,
      <<"O","k","t">>, <<"N","o","v">>, <<"D","e","s">> }
SectionLabels == { <<"K","u","a","l","i","t","a","s">>, <<"N","o"," ","R","e","k","e","n","i","n","g">>, <<"S","i","f","a","t">> }
NameContinuations == { <<"C","e","n","t","r","a","l"," ","S","e","j","a","h","t","e","r","a">>, <<"T","b","k",".">> }
(* lines that the continuation regex does not match: no capital first *)
Unmatched == { <<"(","P","e","r","s","e","r","o",")">>, <<"s","e","j","a","h","t","e","r","a">> }
ContinuationLines ==
    {<<>>} \cup MonthAbbreviations \cup SectionLabels \cup NameContinuations \cup Unmatched

PelaporText(p) ==
    <<"\n">> \o ReporterCode \o ReporterName(p.name) \o <<" ","R","p"," ","1",".","5","0","0",",","0","0"," ","2","7"," ","F","e","b","r","u","a","r","i"," ","2","0","2","4","\n">>
    \o (IF p.cont = <<>> THEN <<>> ELSE p.cont \o <<"\n">>)
    \o KolLine("1", <<" ">>) \o CondLine("aktif")

PelaporParts == [name : ReporterIds, cont : ContinuationLines]

InitPelapor ==
    /\ IdleAgunan
    /\ IdleAuth
    /\ IdleBatch
    /\ IdleDoc
    /\ IdleSummary
    /\ IdleCurrency
    /\ IdleDate
    /\ IdleStrip
    /\ pc = "chunk_start"
    /\ chunk_parts \in PelaporParts
    /\ chunk = PelaporText(chunk_parts)
    /\ nama_debitur = <<"S","A","K","U","A","N">>
    /\ record = <<>>

SpecPelapor == InitPelapor /\ [][NextChunk]_vars

(* the name the rule of the branch patterns leaves, name by name: the      *)
(* phrase of the first pattern that matches is cut off when at least 10    *)
(* characters remain                                                       *)
RemainingName(id) ==
    CASE id = "pusat" -> <<"P","T"," ","B","a","n","k"," ","P","e","r","e","k","o","n","o","m","i","a","n"," ","R","a","k","y","a","t">>
      [] id = "pusat10" -> <<"P","T"," ","B","a","n","k"," ","A","B">>
      [] id = "kc_lower" -> <<"P","T"," ","B","a","n","k"," ","M","a","n","d","i","r","i">>
      [] id = "bukopin" -> <<"P","T"," ","B","a","n","k"," ","K","B"," ","B","u","k","o","p","i","n"," ","T","b","k">>
      [] id = "bpd" -> <<"P","T"," ","B","P","D"," ","J","a","w","a"," ","T","i","m","u","r">>
      [] id = "kpo" -> <<"P","T"," ","B","a","n","k"," ","M","a","n","d","i","r","i"," ","P","e","r","s","e","r","o">>
      [] OTHER -> ReporterName(id)
MatchedByNoPattern == {"kpo_mid", "plain"}

EndsWith(s, tail) == Len(tail) <= Len(s) /\ Slice(s, Len(s) - Len(tail) + 1, Len(s)) = tail

(* whether the line behind the anchor line was appended to the stored name *)
ContinuationAppended ==
    /\ record # <<>>
    /\ chunk_parts.cont # <<>>
    /\ EndsWith(record[1].Pelapor, <<" ">> \o chunk_parts.cont)

(* the stored reporter name without the code and without the continuation *)
StoredName ==
    LET stored == record[1].Pelapor
        upto == IF ContinuationAppended THEN Len(stored) - Len(chunk_parts.cont) - 1
                ELSE Len(stored)
    IN  Slice(stored, Len(ReporterCode) + 1, upto)

(* C14: the branch patterns are tried in their listed order and only the   *)
(* first one that matches is applied: its trailing branch phrase is cut    *)
(* off the name only if the remaining name has at least 10 characters,     *)
(* otherwise the name is kept whole; whenever the stored name is shorter   *)
(* than the raw name the remaining name has at least 10 characters, and a  *)
(* name matched by no pattern is unchanged.                                *)
C14_BranchStripped ==
    pc = "chunk_done" =>
        /\ record # <<>>
        /\ Slice(record[1].Pelapor, 1, Len(ReporterCode)) = ReporterCode
        /\ StoredName = RemainingName(chunk_parts.name)
        /\ Len(StoredName) < Len(ReporterName(chunk_parts.name)) => Len(StoredName) >= 10
        /\ chunk_parts.name \in MatchedByNoPattern => StoredName = ReporterName(chunk_parts.name)
        /\ chunk_parts.cont = <<>> =>
              record[1].Pelapor = ReporterCode \o RemainingName(chunk_parts.name)

C14_Witness ==
    /\ pc = "chunk_done"
    /\ chunk_parts.name = "bukopin"
    /\ chunk_parts.cont = <<>>
    /\ record # <<>>
    /\ record[1].Pelapor = <<"6","0","2","6","0","7"," ","-"," ","P","T"," ","B","a","n","k"," ","K","B"," ","B","u","k","o","p","i","n"," ","T","b","k">>

(* C15: when the line behind the anchor line is matched as a continuation  *)
(* of the name, it is appended to the reporter name unless it begins with  *)
(* a month abbreviation (any of the twelve) or a section label; a line     *)
(* that begins with one of those is never appended.                        *)
C15_Continuation ==
    pc = "chunk_done" =>
        /\ chunk_parts.cont \in MonthAbbreviations \cup SectionLabels =>
              /\ ~ContinuationAppended
              /\ record[1].Pelapor = ReporterCode \o RemainingName(chunk_parts.name)
        /\ chunk_parts.cont \in NameContinuations =>
              record[1].Pelapor = ReporterCode \o RemainingName(chunk_parts.name)
                                  \o <<" ">> \o chunk_parts.cont

----------------------------------------------------------------------------
(* _parse_chunk driven on chunks with a facility-kind line and collateral  *)
(* lines                                                                   *)

KindLine(id) ==
    CASE id = "kartu" -> <<"J","e","n","i","s"," ","K","r","e","d","i","t","/","P","e","m","b","i","a","y","a","a","n"," ","K","a","r","t","u"," ","K","r","e","d","i","t","\n">>
      [] id = "kartu_wrapped" -> <<"J","e","n","i","s"," ","K","r","e","d","i","t","/","P","e","m","b","i","a","y","a","a","n","\n","K","a","r","t","u"," ","K","r","e","d","i","t","\n">>
      [] id = "modal" -> <<"J","e","n","i","s"," ","K","r","e","d","i","t","/","P","e","m","b","i","a","y","a","a","n"," ","K","r","e","d","i","t"," ","M","o","d","a","l"," ","K","e","r","j","a","\n">>
      [] id = "elsewhere" ->
           <<"J","e","n","i","s"," ","K","r","e","d","i","t","/","P","e","m","b","i","a","y","a","a","n"," ","L","a","i","n","n","y","a","\n","J","e","n","i","s"," ","P","e","n","g","g","u","n","a","a","n"," ","K","a","r","t","u"," ","K","r","e","d","i","t","\n","F","r","e","k","u","e","n","s","i"," ","R","e","s","t","r","u","k","t","u","r","i","s","a","s","i"," ","0","\n">>
      [] OTHER -> <<>>
KindIds == {"kartu", "kartu_wrapped", "modal", "elsewhere", "absent"}
CreditCardKinds == {"kartu", "kartu_wrapped"}

BuktiLine(id) ==
    IF id = "shm"
    THEN <<"B","u","k","t","i"," ","K","e","p","e","m","i","l","i","k","a","n"," ","S","H","M"," ","N","O"," ","7","8","8","0"," ","N","i","l","a","i"," ","A","g","u","n","a","n"," ","M","e","n","u","r","u","t"," ","P","e","l","a","p","o","r"," ","R","p"," ","5",".","0","0","0",",","0","0","\n">>
    ELSE <<"B","u","k","t","i"," ","K","e","p","e","m","i","l","i","k","a","n"," ","S","H","G","B",".","9","2","4","0","\n">>
BuktiFragment(id) == IF id = "shm" THEN <<"S","H","M"," ","N","O"," ","7","8","8","0">> ELSE <<"S","H","G","B",".","9","2","4","0">>
BuktiLineIds == {"shm", "shgb"}

JenisLines(id) ==
    CASE id = "one" -> <<"J","e","n","i","s"," ","A","g","u","n","a","n"," ","N","i","l","a","i"," ","A","g","u","n","a","n"," ","M","e","n","u","r","u","t"," ","P","e","l","a","p","o","r","\n","T","a","n","a","h"," ","R","p"," ","5",".","0","0","0",",","0","0","\n">>
      [] id = "two" ->
           <<"J","e","n","i","s"," ","A","g","u","n","a","n"," ","N","i","l","a","i"," ","A","g","u","n","a","n"," ","M","e","n","u","r","u","t"," ","P","e","l","a","p","o","r","\n","T","a","n","a","h"," ","R","p"," ","5",".","0","0","0",",","0","0","\n">>
           \o <<"J","e","n","i","s"," ","A","g","u","n","a","n"," "," ","N","i","l","a","i"," ","A","g","u","n","a","n","\n"," "," ","T","a","n","a","h"," "," ","R","p"," ","7",".","0","0","0",",","0","0","\n">>
      [] id = "blank" -> <<"J","e","n","i","s"," ","A","g","u","n","a","n"," ","N","i","l","a","i"," ","A","g","u","n","a","n","\n"," ","R","p"," ","0","\n">>
      [] OTHER -> <<>>
JenisFragmentsOf(id) ==
    CASE id = "one" -> <<Tanah>>
      [] id = "two" -> <<Tanah, Tanah>>
      [] OTHER -> <<>>
JenisIds == {"one", "two", "blank", "none"}

(* an ownership-proof label without a value, at the very end of the chunk *)
BlankBuktiLine == <<"B","u","k","t","i"," ","K","e","p","e","m","i","l","i","k","a","n"," ","\n">>

RECURSIVE BuktiLines(_)
BuktiLines(ids) == IF ids = <<>> THEN <<>> ELSE BuktiLine(Head(ids)) \o BuktiLines(Tail(ids))

CollateralText(p) ==
    <<"\n">> \o <<"6","0","2","6","0","7"," ","-"," ","P","T"," ","B","a","n","k"," ","A","B","C"," ","R","p"," ","1",".","5","0","0",",","0","0","\n">> \o KindLine(p.kind)
    \o BuktiLines(p.bukti) \o JenisLines(p.jenis) \o CondLine("aktif")
    \o (IF p.blank_last THEN BlankBuktiLine ELSE <<>>)

CollateralParts ==
    [kind : KindIds, bukti : SeqsUpTo(BuktiLineIds, MaxBukti), jenis : JenisIds,
     blank_last : BOOLEAN]

InitCollateral ==
    /\ IdleAgunan
    /\ IdleAuth
    /\ IdleBatch
    /\ IdleDoc
    /\ IdleSummary
    /\ IdleCurrency
    /\ IdleDate
    /\ IdleStrip
    /\ pc = "chunk_start"
    /\ chunk_parts \in CollateralParts
    /\ chunk = CollateralText(chunk_parts)
    /\ nama_debitur = <<"S","A","K","U","A","N">>
    /\ record = <<>>

SpecCollateral == InitCollateral /\ [][NextChunk]_vars

(* the non-empty fragments the lines of the chunk hold *)
BuktiCollected(p) == [k \in 1..Len(p.bukti) |-> BuktiFragment(p.bukti[k])]
JenisCollected(p) == JenisFragmentsOf(p.jenis)

(* C16: the collateral field of every accepted record is decided in this   *)
(* order: if the facility-kind line marks a credit card it is 'Kartu       *)
(* Kredit' whatever fragments the segment holds; otherwise, if at least    *)
(* one non-empty fragment was collected, it is the output of the           *)
(* summarizer; otherwise it is '-'.  It is never the empty string.         *)
C16_CollateralOrder ==
    pc = "chunk_done" =>
        /\ record # <<>>
        /\ record[1].Agunan # <<>>
        /\ chunk_parts.kind \in CreditCardKinds => record[1].Agunan = KartuKredit
        /\ (chunk_parts.kind \notin CreditCardKinds
               /\ (BuktiCollected(chunk_parts) # <<>> \/ JenisCollected(chunk_parts) # <<>>)) =>
              record[1].Agunan =
                  format_agunan_summary(BuktiCollected(chunk_parts), JenisCollected(chunk_parts))
        /\ (chunk_parts.kind \notin CreditCardKinds
               /\ BuktiCollected(chunk_parts) = <<>> /\ JenisCollected(chunk_parts) = <<>>) =>
              record[1].Agunan = <<"-">>
        /\ (chunk_parts.kind = "modal" /\ chunk_parts.bukti = <<"shm", "shgb", "shm">>
               /\ chunk_parts.jenis = "two") =>
              record[1].Agunan = <<"S","H","M"," ","N","O"," ","7","8","8","0",","," ","S","H","M"," ","N","O"," ","7","8","8","0"," ","|"," ","S","H","G","B",".","9","2","4","0"," ","|"," ","T","a","n","a","h"," ","(","2",")">>

C16_Witness ==
    /\ pc = "chunk_done"
    /\ chunk_parts.kind = "kartu"
    /\ chunk_parts.bukti = <<"shm", "shm", "shm", "shm">>
    /\ chunk_parts.jenis = "two"
    /\ record # <<>>
    /\ record[1].Agunan = KartuKredit

----------------------------------------------------------------------------
(* build_debtor_summary, src/slik_parser.py:441-458 *)

(* the order of str: by code point, a proper prefix first *)
CharOrder ==
    <<"\t", "\n", " ", "(", ")", ",", "-", ".", "/">> \o DigitSeq \o UpperSeq \o <<"_">> \o LowerSeq
CharCode(c) == IndexIn(c, CharOrder)
StrLess(a, b) ==
    \E k \in 1..(Len(b)) :
        /\ k <= Len(a) + 1
        /\ \A j \in 1..(k - 1) : a[j] = b[j]
        /\ k = Len(a) + 1 \/ CharCode(a[k]) < CharCode(b[k])

(* the permutations of 1..n *)
Perms(n) == {f \in [1..n -> 1..n] : \A i, j \in 1..n : i # j => f[i] # f[j]}

RECURSIVE SumRaw(_, _)
SumRaw(frame, idxs) ==
    IF idxs = {} THEN 0
    ELSE LET i == Min(idxs) IN frame[i].Baki_Debet_Raw + SumRaw(frame, idxs \ {i})

(* a slip: every group is given the total of the whole frame *)
group_total_all(frame, name) == SumRaw(frame, 1..Len(frame))

(* agg("sum") over the rows of one debtor *)
group_total(frame, name) ==
    SumRaw(frame, {i \in 1..Len(frame) : frame[i].Nama_Debitur = name})

(* agg("count") over the rows of one debtor *)
group_count(frame, name) ==
    Cardinality({i \in 1..Len(frame) : frame[i].Nama_Debitur = name})

(* a slip: the display total is taken from the first record of the debtor  *)
(* instead of being formatted from the summed raw value                    *)
grouped_display_of_first(frame) ==
    LET keys == {frame[i].Nama_Debitur : i \in 1..Len(frame)}
        n == Cardinality(keys)
        key_at == CHOOSE f \in [1..n -> keys] :
                      \A i, j \in 1..n : i < j => StrLess(f[i], f[j])
    IN  [k \in 1..n |->
            [Nama_Debitur |-> key_at[k],
             Jumlah_Fasilitas |-> group_count(frame, key_at[k]),
             Total_Outstanding |->
                 frame[Min({i \in 1..Len(frame) : frame[i].Nama_Debitur = key_at[k]})].Baki_Debet,
             Total_Outstanding_Raw |-> group_total(frame, key_at[k])]]

(* df.groupby("Nama Debitur").agg(...).reset_index() with the formatted    *)
(* column of line 454: one row per key, the keys in ascending order        *)
grouped(frame) ==
    LET keys == {frame[i].Nama_Debitur : i \in 1..Len(frame)}
        n == Cardinality(keys)
        key_at == CHOOSE f \in [1..n -> keys] :
                      \A i, j \in 1..n : i < j => StrLess(f[i], f[j])
    IN  [k \in 1..n |->
            [Nama_Debitur |-> key_at[k],
             Jumlah_Fasilitas |-> group_count(frame, key_at[k]),
             Total_Outstanding |-> format_rupiah(group_total(frame, key_at[k])),
             Total_Outstanding_Raw |-> group_total(frame, key_at[k])]]

(* a slip: ascending=False is left out *)
sort_values_ascending(rows) ==
    {[k \in 1..Len(rows) |-> rows[p[k]]] : p \in
        {q \in Perms(Len(rows)) : \A i, j \in 1..Len(rows) :
            i < j => rows[q[i]].Total_Outstanding_Raw <= rows[q[j]].Total_Outstanding_Raw}}

(* summary.sort_values("Total Outstanding (Raw)", ascending=False): the    *)
(* default kind is quicksort, which is not stable, so rows with equal      *)
(* totals may come out in any order; the set of the possible results       *)
sort_values_descending(rows) ==
    {[k \in 1..Len(rows) |-> rows[p[k]]] : p \in
        {q \in Perms(Len(rows)) : \A i, j \in 1..Len(rows) :
            i < j => rows[q[i]].Total_Outstanding_Raw >= rows[q[j]].Total_Outstanding_Raw}}

(* build_debtor_summary(df): the set of the frames it may return *)
build_debtor_summary(frame) ==
    IF frame = <<>> THEN {<<>>}
    ELSE sort_values_descending(grouped(frame))

----------------------------------------------------------------------------
(* build_debtor_summary driven on bounded frames of records *)

NameA == <<"A">>
NameB == <<"B">>
NameC == <<"a">>
Row(name, raw) ==
    [Nama_Debitur |-> name, Baki_Debet |-> format_rupiah(raw), Baki_Debet_Raw |-> raw,
     Kol |-> <<"1">>]
FrameRows == {Row(n, r) : n \in {NameA, NameB, NameC}, r \in {50, 100, 200}}
Frames == SeqsUpTo(FrameRows, MaxRows)

InitSummary ==
    /\ IdleAgunan
    /\ IdleAuth
    /\ IdleBatch
    /\ IdleDoc
    /\ IdleCurrency
    /\ IdleDate
    /\ IdleStrip
    /\ IdleChunk
    /\ pc = "summary_start"
    /\ df \in Frames
    /\ summary = <<>>

(* a call of build_debtor_summary(df) *)
BuildDebtorSummary ==
    /\ pc = "summary_start"
    /\ summary' \in build_debtor_summary(df)
    /\ pc' = "summary_done"
    /\ UNCHANGED df
    /\ UNCHANGED notSummary

NextSummary == BuildDebtorSummary
SpecSummary == InitSummary /\ [][NextSummary]_vars

RECURSIVE SumSeq(_)
SumSeq(ns) == IF ns = <<>> THEN 0 ELSE Head(ns) + SumSeq(Tail(ns))
Raws(rows) == [i \in 1..Len(rows) |-> rows[i].Baki_Debet_Raw]
Counts(rows) == [i \in 1..Len(rows) |-> rows[i].Jumlah_Fasilitas]
Totals(rows) == [i \in 1..Len(rows) |-> rows[i].Total_Outstanding_Raw]
RowsOf(name) == SelectSeq(df, LAMBDA r : r.Nama_Debitur = name)

(* C4: build_debtor_summary returns exactly one row per distinct debtor    *)
(* name, with the number of that debtor's records and the sum of their     *)
(* raw balances; the counts add up to the number of records and the totals *)
(* to the sum of all raw balances; {(A,100),(B,50),(A,200)} gives          *)
(* (A, 2, 300) and (B, 1, 50); an empty input gives an empty summary.      *)
C4_Summary ==
    pc = "summary_done" =>
        /\ {summary[k].Nama_Debitur : k \in 1..Len(summary)}
              = {df[i].Nama_Debitur : i \in 1..Len(df)}
        /\ \A j, k \in 1..Len(summary) :
              j # k => summary[j].Nama_Debitur # summary[k].Nama_Debitur
        /\ \A k \in 1..Len(summary) :
              /\ summary[k].Jumlah_Fasilitas = Len(RowsOf(summary[k].Nama_Debitur))
              /\ summary[k].Total_Outstanding_Raw
                    = SumSeq(Raws(RowsOf(summary[k].Nama_Debitur)))
        /\ SumSeq(Counts(summary)) = Len(df)
        /\ SumSeq(Totals(summary)) = SumSeq(Raws(df))
        /\ df = <<Row(NameA, 100), Row(NameB, 50), Row(NameA, 200)>> =>
              /\ Len(summary) = 2
              /\ summary[1].Nama_Debitur = NameA /\ summary[1].Jumlah_Fasilitas = 2
              /\ summary[1].Total_Outstanding_Raw = 300
              /\ summary[2].Nama_Debitur = NameB /\ summary[2].Jumlah_Fasilitas = 1
              /\ summary[2].Total_Outstanding_Raw = 50
        /\ df = <<>> => summary = <<>>

C4_Witness ==
    /\ pc = "summary_done"
    /\ df = <<Row(NameA, 100), Row(NameB, 50), Row(NameA, 200)>>
    /\ Len(summary) = 2
    /\ summary[1].Total_Outstanding_Raw = 300

(* the position of a debtor's group in the output of groupby *)
GroupPos(name) == CHOOSE k \in 1..Len(grouped(df)) : grouped(df)[k].Nama_Debitur = name

(* C5 as stated: the rows are ordered by raw total descending and debtors  *)
(* with equal totals keep their original group order (a stable sort).      *)
C5_Original ==
    pc = "summary_done" =>
        \A j, k \in 1..Len(summary) : j < k =>
            \/ summary[j].Total_Outstanding_Raw > summary[k].Total_Outstanding_Raw
            \/ /\ summary[j].Total_Outstanding_Raw = summary[k].Total_Outstanding_Raw
               /\ GroupPos(summary[j].Nama_Debitur) < GroupPos(summary[k].Nama_Debitur)

(* C5 amended: the rows are ordered by raw total outstanding, descending;  *)
(* the order of debtors with equal totals is not fixed.                    *)
C5_Descending ==
    pc = "summary_done" =>
        \A j, k \in 1..Len(summary) : j < k =>
            summary[j].Total_Outstanding_Raw >= summary[k].Total_Outstanding_Raw

C5_Witness ==
    /\ pc = "summary_done"
    /\ Len(summary) = 3
    /\ summary[1].Total_Outstanding_Raw = 200
    /\ summary[2].Total_Outstanding_Raw = 100
    /\ summary[3].Total_Outstanding_Raw = 100

----------------------------------------------------------------------------
(* parse_slik_data, src/slik_parser.py:111-148 *)

KreditPembiayaan == <<"K","r","e","d","i","t","/","P","e","m","b","i","a","y","a","a","n">>
Pelapor == <<"P","e","l","a","p","o","r">>
Cabang == <<"C","a","b","a","n","g">>
BakiDebet == <<"B","a","k","i"," ","D","e","b","e","t">>
TanggalUpdate == <<"T","a","n","g","g","a","l"," ","U","p","d","a","t","e">>

(* lit preceded by \s+ : the position after lit when lit follows the run   *)
(* of whitespace that starts at a, else 0                                  *)
AfterSpaces(s, a, lit) ==
    IF a >= 1 /\ RunEnd(s, a, Space) >= a /\ LitAt(s, RunEnd(s, a, Space) + 1, lit)
    THEN RunEnd(s, a, Space) + 1 + Len(lit) ELSE 0

(* Kredit/Pembiayaan\s*\n\s*Pelapor\s+Cabang\s+Baki Debet\s+Tanggal Update *)
(* matched at i: the last position of the match, or 0.  \s*\n\s* is a run  *)
(* of whitespace that holds a newline.                                     *)
MarkerEnd(s, i) ==
    IF ~LitAt(s, i, KreditPembiayaan) THEN 0
    ELSE LET a == i + Len(KreditPembiayaan)
             b == RunEnd(s, a, Space)
             p1 == IF (\E k \in a..b : s[k] = "\n") /\ LitAt(s, b + 1, Pelapor)
                   THEN b + 1 + Len(Pelapor) ELSE 0
             p2 == AfterSpaces(s, p1, Cabang)
             p3 == AfterSpaces(s, p2, BakiDebet)
             p4 == AfterSpaces(s, p3, TanggalUpdate)
         IN  IF p4 = 0 THEN 0 ELSE p4 - 1

(* re.split(marker, s) from position i on: the pieces between the matches *)
RECURSIVE split_marker(_, _)
split_marker(s, i) ==
    LET hits == {j \in i..Len(s) : MarkerEnd(s, j) > 0}
    IN  IF hits = {} THEN <<Slice(s, i, Len(s))>>
        ELSE <<Slice(s, i, Min(hits) - 1)>> \o split_marker(s, MarkerEnd(s, Min(hits)) + 1)

(* a slip: the header piece before the first marker is kept as a segment *)
facility_chunks_all(t) == split_marker(t, 1)

(* lines 122-125: chunks = re.split(...); facility_chunks = chunks[1:] *)
facility_chunks_of(t) == Tail(split_marker(t, 1))

(* a slip: the record is put in front of the list *)
append_record_front(records, rec) == rec \o records

(* lines 130-131: if record is not None: records.append(record) *)
append_record(records, rec) == IF rec # <<>> THEN records \o rec ELSE records

(* lines 127-131: the loop over the facility chunks *)
RECURSIVE records_loop(_, _, _)
records_loop(chunks, nama, records) ==
    IF chunks = <<>> THEN records
    ELSE records_loop(Tail(chunks), nama,
                      append_record(records, parse_chunk(Head(chunks), nama)))

(* parse_slik_data: the rows of the DataFrame returned, <<>> when empty *)
parse_slik_data(t, nama) == records_loop(facility_chunks_of(t), nama, <<>>)

----------------------------------------------------------------------------
(* parse_slik_data driven on documents written segment by segment *)

MarkerText(id) ==
    IF id = "plain"
    THEN KreditPembiayaan \o <<"\n">> \o Pelapor \o <<" ">> \o Cabang \o <<" ">>
         \o BakiDebet \o <<" ">> \o TanggalUpdate
    ELSE KreditPembiayaan \o <<" ","\n"," "," ">> \o Pelapor \o <<" "," ">> \o Cabang
         \o <<"\n">> \o BakiDebet \o <<"\t">> \o TanggalUpdate
MarkerIds == {"plain", "spaced"}

(* the kinds of segment: their lines, whether _parse_chunk is to accept    *)
(* them, and the balance they state                                        *)
SegParts(kind) ==
    CASE kind = "active1" -> [anchor |-> "code6", kol |-> "1", kolsep |-> <<" ">>, cond |-> "aktif"]
      [] kind = "kol2" -> [anchor |-> "wrapped", kol |-> "2", kolsep |-> <<" ">>, cond |-> "lunas"]
      [] kind = "closed1" -> [anchor |-> "tight", kol |-> "1", kolsep |-> <<" ">>, cond |-> "lunas"]
      [] OTHER -> [anchor |-> "norp", kol |-> "3", kolsep |-> <<" ">>, cond |-> "aktif"]
SegText(kind) == IF kind = "bare" THEN <<>> ELSE ChunkText(SegParts(kind))
SegKinds == {"active1", "kol2", "closed1", "noanchor", "bare"}
AcceptedKinds == {"active1", "kol2"}
KindRaw(kind) == IF kind = "active1" THEN 383570669 ELSE 1500

(* the text before the first marker: nothing, a report header, or a line   *)
(* that lacks the marker's newline followed by the lines of a facility     *)
PreText(id) ==
    CASE id = "header" ->
           <<"I","N","F","O","R","M","A","S","I"," ","D","E","B","I","T","U","R","\n",
             "N","a","m","a"," ","S","A","K","U","A","N","\n">>
      [] id = "nearmarker" ->
           KreditPembiayaan \o <<" ">> \o Pelapor \o <<" ">> \o Cabang \o <<" ">>
           \o BakiDebet \o <<" ">> \o TanggalUpdate \o ChunkText(SegParts("active1"))
      [] OTHER -> <<>>
PreIds == {"none", "header", "nearmarker"}

RECURSIVE SegsText(_)
SegsText(segs) ==
    IF segs = <<>> THEN <<>>
    ELSE MarkerText(Head(segs).marker) \o SegText(Head(segs).kind) \o SegsText(Tail(segs))
DocText(p) == PreText(p.pre) \o SegsText(p.segs)
DocParts == [pre : PreIds, segs : SeqsUpTo([marker : MarkerIds, kind : SegKinds], MaxSegs)]

InitDoc ==
    /\ IdleAgunan
    /\ IdleAuth
    /\ IdleBatch
    /\ IdleCurrency
    /\ IdleDate
    /\ IdleStrip
    /\ IdleSummary
    /\ pc = "doc_start"
    /\ doc_parts \in DocParts
    /\ full_text = DocText(doc_parts)
    /\ facility_chunks = <<>>
    /\ nama_debitur \in DebtorNames
    /\ chunk_parts = [anchor |-> "absent", kol |-> "-", kolsep |-> <<>>, cond |-> "absent"]
    /\ chunk = <<>>
    /\ record = <<>>

(* a call of parse_slik_data(full_text, nama_debitur) *)
ParseSlikData ==
    /\ pc = "doc_start"
    /\ facility_chunks' = facility_chunks_of(full_text)
    /\ df' = records_loop(facility_chunks_of(full_text), nama_debitur, <<>>)
    /\ pc' = "doc_done"
    /\ UNCHANGED <<doc_parts, full_text, nama_debitur, chunk_parts, chunk, record, summary>>
    /\ UNCHANGED notDoc

(* build_debtor_summary on the records of the document *)
BuildDocSummary ==
    /\ pc = "doc_done"
    /\ summary' \in build_debtor_summary(df)
    /\ pc' = "doc_summary"
    /\ UNCHANGED <<doc_parts, full_text, facility_chunks, nama_debitur, chunk_parts, chunk,
                   record, df>>
    /\ UNCHANGED notDoc

NextDoc == ParseSlikData \/ BuildDocSummary
SpecDoc == InitDoc /\ [][NextDoc]_vars

AcceptedSegs == SelectSeq(doc_parts.segs, LAMBDA g : g.kind \in AcceptedKinds)

ShownAmount(display) == DigitsValue(RemoveChar(Slice(display, 4, Len(display)), "."))
IsRupiahDisplay(display) ==
    /\ Len(display) >= 4
    /\ Slice(display, 1, 3) = <<"R", "p", " ">>
    /\ \A i \in 4..Len(display) : display[i] \in Digit \cup {"."}

(* C12: the display and the raw value of a currency field never diverge:   *)
(* in every record _parse_chunk returns, 'Baki Debet' is _format_rupiah of *)
(* 'Baki Debet (Raw)', and in every row of build_debtor_summary 'Total     *)
(* Outstanding' is _format_rupiah of 'Total Outstanding (Raw)', the sum of *)
(* the raw balances of the debtor's records.                               *)
C12_DisplayFromRaw ==
    /\ \A i \in 1..Len(df) :
          /\ df[i].Baki_Debet = format_rupiah(df[i].Baki_Debet_Raw)
          /\ IsRupiahDisplay(df[i].Baki_Debet)
          /\ ShownAmount(df[i].Baki_Debet) = df[i].Baki_Debet_Raw
    /\ \A k \in 1..Len(summary) :
          /\ summary[k].Total_Outstanding = format_rupiah(summary[k].Total_Outstanding_Raw)
          /\ IsRupiahDisplay(summary[k].Total_Outstanding)
          /\ ShownAmount(summary[k].Total_Outstanding) = summary[k].Total_Outstanding_Raw
          /\ summary[k].Total_Outstanding_Raw =
                SumSeq(Raws(SelectSeq(df, LAMBDA r : r.Nama_Debitur = summary[k].Nama_Debitur)))

C12_Witness ==
    /\ pc = "doc_summary"
    /\ Len(df) = 2
    /\ df[1].Baki_Debet_Raw = 383570669
    /\ df[2].Baki_Debet = <<"R","p"," ","1",".","5","0","0">>
    /\ Len(summary) = 1
    /\ summary[1].Total_Outstanding_Raw = 383572169
    /\ summary[1].Total_Outstanding = <<"R","p"," ","3","8","3",".","5","7","2",".","1","6","9">>

(* C7: a text with k section markers gives exactly k candidate segments in *)
(* document order, none holding the marker, the text before the first      *)
(* marker dropped; with no marker there are no segments and the result of  *)
(* parse_slik_data is empty.                                               *)
C7_Segmenter ==
    pc \in {"doc_done", "doc_summary"} =>
        /\ Len(facility_chunks) = Len(doc_parts.segs)
        /\ \A j \in 1..Len(facility_chunks) :
              /\ facility_chunks[j] = SegText(doc_parts.segs[j].kind)
              /\ \A i \in 1..Len(facility_chunks[j]) : MarkerEnd(facility_chunks[j], i) = 0
        /\ doc_parts.segs = <<>> => (facility_chunks = <<>> /\ df = <<>>)

C7_Witness ==
    /\ pc = "doc_done"
    /\ doc_parts.pre = "nearmarker"
    /\ Len(doc_parts.segs) = 2
    /\ doc_parts.segs[1].marker = "spaced"
    /\ Len(facility_chunks) = 2
    /\ facility_chunks[2] = SegText(doc_parts.segs[2].kind)

----------------------------------------------------------------------------
(* The processing pipeline of app.py, src/app.py:250-281 *)

(* An uploaded file is given by what extract_text_from_pdf does on it: it  *)
(* raises, or it returns (full_text, nama_debitur).                        *)
FileKinds == {"corrupt", "blank", "nomarker", "one", "mixed", "two"}
FileRaises(kind) == kind = "corrupt"
FileParts(kind) ==
    CASE kind = "nomarker" -> [pre |-> "header", segs |-> <<>>]
      [] kind = "one" ->
           [pre |-> "header", segs |-> <<[marker |-> "plain", kind |-> "active1"]>>]
      [] kind = "mixed" ->
           [pre |-> "none", segs |-> <<[marker |-> "plain", kind |-> "closed1"],
                                       [marker |-> "spaced", kind |-> "kol2"]>>]
      [] kind = "two" ->
           [pre |-> "header", segs |-> <<[marker |-> "spaced", kind |-> "active1"],
                                         [marker |-> "plain", kind |-> "kol2"]>>]
      [] OTHER -> [pre |-> "none", segs |-> <<>>]
(* extract_text_from_pdf ends every page with a newline *)
FileText(kind) == DocText(FileParts(kind)) \o <<"\n">>
FileNama(kind) ==
    IF kind \in {"one", "two"} THEN <<"S","A","K","U","A","N">>
    ELSE IF kind = "mixed" THEN <<"P","T"," ","I","N","D","O">>
    ELSE <<"-">>

(* a slip: an exception ends the loop *)
after_exception_break(i, n) == n + 1

(* lines 274-275: the exception is reported and the loop goes on *)
after_exception(i, n) == i + 1

InitBatch ==
    /\ IdleAgunan
    /\ IdleAuth
    /\ IdleCurrency
    /\ IdleDate
    /\ IdleStrip
    /\ IdleChunk
    /\ IdleSummary
    /\ IdleDoc
    /\ pc = "batch_start"
    /\ uploaded_files \in SeqsUpTo(FileKinds, MaxFiles) \ {<<>>}
    /\ idx = 0
    /\ all_records = <<>>
    /\ progress = <<>>
    /\ alerts = <<>>
    /\ session_state = [processed |-> FALSE, results |-> <<>>]

(* lines 250-254: process_clicked and uploaded_files *)
StartBatch ==
    /\ pc = "batch_start"
    /\ uploaded_files # <<>>
    /\ all_records' = <<>>
    /\ idx' = 1
    /\ pc' = "batch_loop"
    /\ UNCHANGED <<uploaded_files, progress, alerts, session_state>>
    /\ UNCHANGED notBatch

(* one pass of the loop where extract_text_from_pdf raises: lines 257-262, *)
(* 274-275                                                                 *)
ProcessFileRaises ==
    /\ pc = "batch_loop"
    /\ idx <= Len(uploaded_files)
    /\ FileRaises(uploaded_files[idx])
    /\ progress' = Append(progress, idx)
    /\ alerts' = Append(alerts, [file |-> idx, level |-> "error"])
    /\ idx' = after_exception(idx, Len(uploaded_files))
    /\ UNCHANGED <<uploaded_files, all_records, session_state, pc>>
    /\ UNCHANGED notBatch

(* one pass where the extracted text is blank: lines 257-266 *)
ProcessFileBlank ==
    /\ pc = "batch_loop"
    /\ idx <= Len(uploaded_files)
    /\ ~FileRaises(uploaded_files[idx])
    /\ Strip(FileText(uploaded_files[idx])) = <<>>
    /\ progress' = Append(progress, idx)
    /\ alerts' = Append(alerts, [file |-> idx, level |-> "warning"])
    /\ idx' = idx + 1
    /\ UNCHANGED <<uploaded_files, all_records, session_state, pc>>
    /\ UNCHANGED notBatch

(* one pass where the document is parsed: lines 257-272 *)
ProcessFileParsed ==
    /\ pc = "batch_loop"
    /\ idx <= Len(uploaded_files)
    /\ ~FileRaises(uploaded_files[idx])
    /\ Strip(FileText(uploaded_files[idx])) # <<>>
    /\ LET parsed_df == parse_slik_data(FileText(uploaded_files[idx]),
                                        FileNama(uploaded_files[idx]))
       IN  all_records' = IF parsed_df # <<>> THEN all_records \o parsed_df ELSE all_records
    /\ progress' = Append(progress, idx)
    /\ idx' = idx + 1
    /\ UNCHANGED <<uploaded_files, alerts, session_state, pc>>
    /\ UNCHANGED notBatch

(* lines 277-281: the loop is over, the results are stored *)
StoreResults ==
    /\ pc = "batch_loop"
    /\ idx > Len(uploaded_files)
    /\ session_state' = [processed |-> TRUE, results |-> all_records]
    /\ pc' = "batch_stored"
    /\ UNCHANGED <<uploaded_files, idx, all_records, progress, alerts>>
    /\ UNCHANGED notBatch

NextBatch ==
    \/ StartBatch
    \/ ProcessFileRaises
    \/ ProcessFileBlank
    \/ ProcessFileParsed
    \/ StoreResults
SpecBatch == InitBatch /\ [][NextBatch]_vars

(* the balances a document of each kind is to contribute, in order *)
KindBalances(kind) ==
    CASE kind = "one" -> <<383570669>>
      [] kind = "mixed" -> <<1500>>
      [] kind = "two" -> <<383570669, 1500>>
      [] OTHER -> <<>>
RECURSIVE ExpectedBalances(_)
ExpectedBalances(files) ==
    IF files = <<>> THEN <<>> ELSE KindBalances(Head(files)) \o ExpectedBalances(Tail(files))
RECURSIVE ExpectedNames(_)
ExpectedNames(files) ==
    IF files = <<>> THEN <<>>
    ELSE [i \in 1..Len(KindBalances(Head(files))) |-> FileNama(Head(files))]
         \o ExpectedNames(Tail(files))

(* C6: a document whose extraction raises, or whose text is empty, never   *)
(* aborts the batch: the loop goes on to every later document, and the     *)
(* records stored at the end are the accepted records of the documents     *)
(* that did not fail, concatenated in input order.                         *)
C6_BatchContinues ==
    pc = "batch_stored" =>
        /\ session_state.processed
        /\ progress = [i \in 1..Len(uploaded_files) |-> i]
        /\ Raws(session_state.results) = ExpectedBalances(uploaded_files)
        /\ [i \in 1..Len(session_state.results) |-> session_state.results[i].Nama_Debitur]
              = ExpectedNames(uploaded_files)
        /\ {a.file : a \in {alerts[k] : k \in 1..Len(alerts)}}
              = {i \in 1..Len(uploaded_files) : uploaded_files[i] \in {"corrupt", "blank"}}

C6_Witness ==
    /\ pc = "batch_stored"
    /\ uploaded_files = <<"one", "corrupt", "mixed">>
    /\ Raws(session_state.results) = <<383570669, 1500>>
    /\ alerts = <<[file |-> 2, level |-> "error"]>>

----------------------------------------------------------------------------
(* _format_agunan_summary driven on bounded lists of fragments *)

InitAgunan ==
    /\ IdleBatch
    /\ IdleDoc
    /\ IdleSummary
    /\ IdleChunk
    /\ IdleCurrency
    /\ IdleDate
    /\ IdleStrip
    /\ IdleAuth
    /\ pc = "agunan_start"
    /\ bukti_items \in SeqsUpTo(BuktiFragments, MaxBukti)
    /\ jenis_items \in SeqsUpTo(JenisFragments, MaxJenis)
    /\ agunan = <<>>

(* a call of _format_agunan_summary(bukti_items, jenis_items) *)
FormatAgunanSummary ==
    /\ pc = "agunan_start"
    /\ agunan' = format_agunan_summary(bukti_items, jenis_items)
    /\ pc' = "agunan_done"
    /\ UNCHANGED <<bukti_items, jenis_items>>
    /\ UNCHANGED notAgunan

NextAgunan == FormatAgunanSummary
SpecAgunan == InitAgunan /\ [][NextAgunan]_vars

(* the rule of the summary, stated on the fragments: the group key each    *)
(* enumerated fragment belongs to                                          *)
FragmentPrefix(item) ==
    CASE item \in {BuktiSHM1, BuktiShm2} -> <<"S","H","M">>
      [] item = BuktiSHGB -> <<"S","H","G","B">>
      [] OTHER -> Lainnya

(* the positions where a key occurs for the first time, in ascending order *)
RECURSIVE Ascending(_)
Ascending(S) == IF S = {} THEN <<>> ELSE <<Min(S)>> \o Ascending(S \ {Min(S)})
FirstSeen(keys) ==
    Ascending({i \in 1..Len(keys) : \A j \in 1..(i - 1) : keys[j] # keys[i]})

ExpectedBuktiOutputs ==
    LET keys == [i \in 1..Len(bukti_items) |-> FragmentPrefix(bukti_items[i])]
        first == FirstSeen(keys)
        members(i) == SelectSeq(bukti_items, LAMBDA m : FragmentPrefix(m) = keys[i])
    IN  [g \in 1..Len(first) |->
            IF Len(members(first[g])) <= 3 THEN Join(members(first[g]), <<",", " ">>)
            ELSE DecStr(Len(members(first[g]))) \o <<" ">> \o keys[first[g]]]

ExpectedJenisOutputs ==
    LET first == FirstSeen(jenis_items)
        count(i) == Len(SelectSeq(jenis_items, LAMBDA m : m = jenis_items[i]))
    IN  [g \in 1..Len(first) |->
            CASE count(first[g]) = 1 -> jenis_items[first[g]]
              [] count(first[g]) \in {2, 3} ->
                   jenis_items[first[g]] \o <<" ", "(">> \o DecStr(count(first[g])) \o <<")">>
              [] OTHER -> DecStr(count(first[g])) \o <<" ">> \o jenis_items[first[g]]]

(* C11: _format_agunan_summary formats every group by one rule: an         *)
(* ownership-proof group (keyed by the recognized certificate prefix, else *)
(* 'Lainnya') of at most 3 members lists its members joined by ', ', of    *)
(* more than 3 becomes '<count> <key>'; a collateral-type group (keyed by  *)
(* the exact text) is the bare text for count 1, 'text (count)' for 2 and  *)
(* 3, '<count> <text>' above 3; the group outputs are joined by ' | ' in   *)
(* first-encountered order.  4 fragments of one recognized prefix give     *)
(* '4 <PREFIX>', 2 equal collateral-type fragments give '<text> (2)'.      *)
C11_AgunanSummary ==
    pc = "agunan_done" =>
        /\ (bukti_items # <<>> \/ jenis_items # <<>>) =>
              agunan = Join(ExpectedBuktiOutputs \o ExpectedJenisOutputs, <<" ", "|", " ">>)
        /\ (bukti_items = <<BuktiSHM1, BuktiShm2, BuktiSHM1, BuktiSHM1>> /\ jenis_items = <<>>) =>
              agunan = <<"4"," ","S","H","M">>
        /\ (bukti_items = <<>> /\ jenis_items = <<Tanah, Tanah>>) =>
              agunan = <<"T","a","n","a","h"," ","(","2",")">>

C11_Witness ==
    /\ pc = "agunan_done"
    /\ bukti_items = <<BuktiShm2, BuktiSHM1, BuktiSHM1, BuktiSHM1>>
    /\ jenis_items = <<Tanah, Tanah>>
    /\ agunan = <<"4"," ","S","H","M"," ","|"," ","T","a","n","a","h"," ","(","2",")">>

----------------------------------------------------------------------------
(* app.py as Streamlit runs it: the whole script once per interaction, the *)
(* access gate of lines 152-206 in front of the pipeline of lines 250-287  *)

(* what access_code.txt may hold: <<>> when reading it raises, else <<content>> *)
AccessCodeFiles == {<<>>, <<<<"a","b","c","\n">>>>, <<<<"\n">>>>}
(* what the user may type into the text input of line 176 *)
CodeInputs == {<<>>, <<"s","l","i","k","2","0","2","6">>, <<"a","b","c">>, <<"a","b","c"," ">>, <<"A","B","C">>}
(* what the file uploader may hold *)
Uploads == {<<>>, <<"one">>, <<"corrupt", "mixed">>}

(* _load_access_code, lines 152-158 *)
load_access_code(file) ==
    IF file = <<>> THEN <<"s","l","i","k","2","0","2","6">> ELSE Strip(file[1])

(* the comparison of line 186 with the input stripped first *)
login_accepts_stripped(code_input, correct_code) == Strip(code_input) = correct_code
(* line 186: code_input == correct_code *)
login_accepts(code_input, correct_code) == code_input = correct_code

(* lines 264-272: what the loop does with an extracted text: the records   *)
(* it adds and the alert it raises, "none" when it raises none             *)
text_pass(extracted_text, nama) ==
    IF Strip(extracted_text) = <<>> THEN [records |-> <<>>, level |-> "warning"]
    ELSE [records |-> parse_slik_data(extracted_text, nama), level |-> "none"]

(* lines 257-275, one pass of the loop *)
file_pass(files, i) ==
    IF FileRaises(files[i]) THEN [records |-> <<>>, level |-> "error"]
    ELSE text_pass(FileText(files[i]), FileNama(files[i]))

(* lines 253-275, the loop left behind: the records gathered from the      *)
(* passes and the alerts shown                                             *)
gathered(passes) ==
    [records |-> Concat([i \in 1..Len(passes) |-> passes[i].records]),
     alerts |-> SelectSeq([i \in 1..Len(passes) |-> [file |-> i, level |-> passes[i].level]],
                          LAMBDA a : a.level # "none")]

(* lines 253-275: the loop over the uploaded files, run to its end: every  *)
(* file gets its pass, in input order                                      *)
pipeline(files) == gathered([i \in 1..Len(files) |-> file_pass(files, i)])

(* a button can be clicked only if the run before drew it, and the run     *)
(* st.rerun() starts comes with no click                                   *)
CanClick(screen) == run.screen = screen /\ ~run.rerun

(* what one script run is recorded as *)
RunRecord(auth, screen, login, code, logout, process, rerun, processed, displayed) ==
    [authenticated |-> auth, screen |-> screen, login_clicked |-> login,
     code_input |-> code, logout_clicked |-> logout, process_clicked |-> process,
     rerun |-> rerun, processed |-> processed, displayed |-> displayed]

InitAuth ==
    /\ IdleCurrency
    /\ IdleDate
    /\ IdleStrip
    /\ IdleChunk
    /\ IdleSummary
    /\ IdleDoc
    /\ IdleBatch
    /\ IdleAgunan
    /\ pc = "script"
    /\ authenticated = FALSE
    /\ access_code \in AccessCodeFiles
    /\ run = RunRecord(FALSE, "none", FALSE, <<>>, FALSE, FALSE, FALSE, FALSE, FALSE)
    /\ runs = 0

notAuth == <<pc, currencyVars, dateVars, stripVars, chunkVars, summaryVars, docVars, agunanVars>>

(* lines 163-183, 189-200: the login screen with no click on Login, then st.stop() *)
ShowLogin ==
    /\ runs < MaxRuns
    /\ ~authenticated
    /\ \E code_input \in CodeInputs :
          run' = RunRecord(FALSE, "login", FALSE, code_input, FALSE, FALSE, FALSE, FALSE, FALSE)
    /\ runs' = runs + 1
    /\ alerts' = <<>>
    /\ UNCHANGED <<authenticated, access_code>>
    /\ UNCHANGED <<uploaded_files, idx, all_records, progress, session_state>>
    /\ UNCHANGED notAuth

(* lines 163-186, 189-200: Login clicked with a code that is not the one   *)
(* loaded: st.error, then st.stop()                                        *)
LoginRejected ==
    /\ runs < MaxRuns
    /\ ~authenticated
    /\ CanClick("login")
    /\ \E code_input \in CodeInputs :
          /\ ~login_accepts(code_input, load_access_code(access_code))
          /\ run' = RunRecord(FALSE, "login", TRUE, code_input, FALSE, FALSE, FALSE, FALSE, FALSE)
    /\ runs' = runs + 1
    /\ alerts' = <<[file |-> 0, level |-> "error"]>>
    /\ UNCHANGED <<authenticated, access_code>>
    /\ UNCHANGED <<uploaded_files, idx, all_records, progress, session_state>>
    /\ UNCHANGED notAuth

(* lines 163-188: Login clicked with the code loaded: the flag is set and  *)
(* st.rerun() ends the run                                                 *)
LoginAccepted ==
    /\ runs < MaxRuns
    /\ ~authenticated
    /\ CanClick("login")
    /\ \E code_input \in CodeInputs :
          /\ login_accepts(code_input, load_access_code(access_code))
          /\ run' = RunRecord(FALSE, "login", TRUE, code_input, FALSE, FALSE, TRUE, FALSE, FALSE)
    /\ authenticated' = TRUE
    /\ runs' = runs + 1
    /\ alerts' = <<>>
    /\ UNCHANGED access_code
    /\ UNCHANGED <<uploaded_files, idx, all_records, progress, session_state>>
    /\ UNCHANGED notAuth

(* lines 203-206: Logout clicked: the flag is cleared and st.rerun() ends  *)
(* the run before the uploader, the pipeline and the results               *)
Logout ==
    /\ runs < MaxRuns
    /\ authenticated
    /\ CanClick("main")
    /\ run' = RunRecord(TRUE, "main", FALSE, <<>>, TRUE, FALSE, TRUE, FALSE, FALSE)
    /\ authenticated' = FALSE
    /\ runs' = runs + 1
    /\ alerts' = <<>>
    /\ UNCHANGED access_code
    /\ UNCHANGED <<uploaded_files, idx, all_records, progress, session_state>>
    /\ UNCHANGED notAuth

(* lines 203-245, 286-381: the main page with no click: the uploader holds *)
(* what the user left in it, the stored results are shown with the export  *)
ShowMain ==
    /\ runs < MaxRuns
    /\ authenticated
    /\ uploaded_files' \in (IF CanClick("main") THEN Uploads ELSE {uploaded_files})
    /\ run' = RunRecord(TRUE, "main", FALSE, <<>>, FALSE, FALSE, FALSE, FALSE,
                        session_state.processed)
    /\ runs' = runs + 1
    /\ alerts' = <<>>
    /\ UNCHANGED <<authenticated, access_code>>
    /\ UNCHANGED <<idx, all_records, progress, session_state>>
    /\ UNCHANGED notAuth

(* lines 203-381: Process PDFs clicked: the pipeline runs over the uploaded *)
(* files, the results are stored, shown and offered for export             *)
ProcessClicked ==
    /\ runs < MaxRuns
    /\ authenticated
    /\ CanClick("main")
    /\ uploaded_files # <<>>
    /\ \E out \in {pipeline(uploaded_files)} :
          /\ all_records' = out.records
          /\ alerts' = out.alerts
          /\ session_state' = [processed |-> TRUE, results |-> out.records]
    /\ idx' = Len(uploaded_files) + 1
    /\ progress' = [i \in 1..Len(uploaded_files) |-> i]
    /\ run' = RunRecord(TRUE, "main", FALSE, <<>>, FALSE, TRUE, FALSE, TRUE, TRUE)
    /\ runs' = runs + 1
    /\ UNCHANGED <<authenticated, access_code, uploaded_files>>
    /\ UNCHANGED notAuth

NextAuth ==
    \/ ShowLogin
    \/ LoginRejected
    \/ LoginAccepted
    \/ Logout
    \/ ShowMain
    \/ ProcessClicked
SpecAuth == InitAuth /\ [][NextAuth]_vars

(* the text a login has to type: the stripped content of access_code.txt,  *)
(* slik2026 when the file cannot be read                                   *)
AccessCode ==
    IF access_code = <<>> THEN <<"s","l","i","k","2","0","2","6">> ELSE Strip(access_code[1])

(* C17: across any sequence of script runs the flag authenticated starts   *)
(* false, becomes true only in a run where Login is clicked with an input  *)
(* equal to the access code, and becomes false on logout; in every run     *)
(* where the flag is false the script stops at the login screen: nothing   *)
(* is processed, no stored result is displayed or exported.                *)
C17_AccessGate ==
    /\ [](runs = 0 => ~authenticated)
    /\ [][(~authenticated /\ authenticated')
             => (run'.login_clicked /\ run'.code_input = AccessCode)]_vars
    /\ [][run'.logout_clicked => ~authenticated']_vars
    /\ [][(authenticated /\ ~authenticated') => run'.logout_clicked]_vars
    /\ [][~authenticated
             => /\ run'.screen = "login"
                /\ ~run'.processed
                /\ ~run'.displayed
                /\ UNCHANGED <<all_records, session_state>>]_vars

(* a run stopped at the login screen after a logout, with results of an    *)
(* earlier login still stored                                              *)
C17_Witness ==
    /\ ~authenticated
    /\ run.screen = "login"
    /\ ~run.authenticated
    /\ run.login_clicked
    /\ session_state.processed
    /\ Len(session_state.results) > 0
    /\ ~run.displayed

====
